---- MODULE Spec2Model ----
(***************************************************************************)
(* Model of the fair-results scraper: src/backend/server.js (discovery,    *)
(* per-category scrape loop, table extraction, result transformation, the  *)
(* HTTP handlers) and src/frontend/src/App.js (the request it builds, and  *)
(* the App component: its state, its effects, its handlers on both sides   *)
(* of their await, and the text it formats from a report).                 *)
(*                                                                         *)
(* Text that the code inspects character by character (cell texts, option  *)
(* labels, subcategory names, object keys) is a sequence of one-character  *)
(* strings, so that trim, toLowerCase, includes, indexOf, substring and    *)
(* split are computed and not assumed.  Error messages, which the code     *)
(* only tests for truthiness, are plain strings.                           *)
(*                                                                         *)
(* A JavaScript object is a sequence of [k, v] pairs held in the order     *)
(* Object.keys enumerates them: canonical array-index keys first, in       *)
(* ascending numeric order, then the other keys in insertion order.        *)
(***************************************************************************)
EXTENDS Integers, Sequences, FiniteSets, TLC

VARIABLES
    \* ---- one HTTP request against the backend (specification Spec) ----
    req,          \* the request: route and body
    site,         \* the landing page: its <select> and the <option>s in it
    pc,           \* position of the handler / of the function it is running
    browser,      \* the running function's `browser` variable is assigned
    open,         \* browsers launched and not yet closed
    launched,     \* browsers launched so far
    exc,          \* the exception in flight ("" when none)
    list,         \* the list the scrape loop iterates
    idx,          \* index of the category being processed (1-based)
    page,         \* the page of the category in progress, once submitted
    results,      \* the scrape function's `results` object
    steps,        \* browser operations of the category in progress, in order
    invocations,  \* loop iterations started (select-and-submit invocations)
    outcomes,     \* history: what each processed category ended with
    discovered,   \* what discoverCategories returned
    discoverCalls,\* calls of discoverCategories so far
    context,      \* the scrape function's page: "none", "usable" or "lost"
    response,     \* the HTTP response
    \* ---- one category through extract and transform (SpecExtract) ----
    xpage,        \* the rendered page handed to extractCategoryResults
    xpc,          \* "page", "extracted" or "transformed"
    xraw,         \* what extractCategoryResults returned
    xreport,      \* transformScrapedData's output, after serialization
    \* ---- the App component of the frontend (SpecUI) ----
    isAuthenticated,      \* useState: the main view is shown
    authToken,            \* useState: the password sent as Bearer token
    baseUrl,              \* useState: the URL field
    discoveredCategories, \* useState: descriptors of the last discovery
    selectedCategories,   \* useState: display names ticked in the list
    scrapedCategories,    \* useState: display names marked as scraped
    uiResults,            \* useState `results`: the formatted text shown
    rendered,             \* history: the report uiResults was made from
    localStorage,         \* authToken and scrapedCategories_<url> items
    inflight              \* the axios calls awaiting their answer

vars == <<req, site, pc, browser, open, launched, exc, list, idx, page, results,
          steps, invocations, outcomes, discovered, discoverCalls, context,
          response, xpage, xpc, xraw, xreport, isAuthenticated, authToken,
          baseUrl, discoveredCategories, selectedCategories, scrapedCategories,
          uiResults, rendered, localStorage, inflight>>
reqVars == <<req, site, pc, browser, open, launched, exc, list, idx, page,
             results, steps, invocations, outcomes, discovered, discoverCalls,
             context, response>>
xVars == <<xpage, xpc, xraw, xreport>>
uiVars == <<isAuthenticated, authToken, baseUrl, discoveredCategories,
            selectedCategories, scrapedCategories, uiResults, rendered,
            localStorage, inflight>>

(***************************************************************************)
(* Bounds of the model.                                                    *)
(***************************************************************************)
MaxRows == 4
MaxCats == 2
MaxSelected == 1
MaxBody == 2
MaxInFlight == 1

(***************************************************************************)
(* The App component at rest: the values its state, the browser's          *)
(* localStorage and its calls have while the backend is looked at alone.   *)
(***************************************************************************)
\* the URL field: empty, or the results page of one of two fairs
uEmpty == ""
uFairA == "https://fairentry.com/Fair/Results/1"
uFairB == "https://fairentry.com/Fair/Results/2"
Urls == {uEmpty, uFairA, uFairB}

\* the axios calls: one per handler, each behind a button that is disabled
\* (or a form that is hidden) while its own call is in flight
Calls == {"login", "discover", "scrapeAll", "scrapeSelected"}

\* a call in flight, with the values of the render that issued it which its
\* continuation still reads: the token of its header, baseUrl, and the
\* selected and scraped categories
Call(token, url, selected, scraped) ==
    [sent |-> TRUE, token |-> token, baseUrl |-> url,
     selected |-> selected, scraped |-> scraped]
NoCall ==
    [sent |-> FALSE, token |-> <<>>, baseUrl |-> uEmpty,
     selected |-> <<>>, scraped |-> <<>>]

NotRendered == [made |-> FALSE, data |-> <<>>]

\* the user has at most MaxInFlight calls awaiting their answer
InFlight == Cardinality({c \in Calls : inflight[c].sent})

\* the state of the App while the backend is looked at on its own
NoApp ==
    /\ isAuthenticated = FALSE
    /\ authToken = <<>>
    /\ baseUrl = uEmpty
    /\ discoveredCategories = <<>>
    /\ selectedCategories = <<>>
    /\ scrapedCategories = <<>>
    /\ uiResults = <<>>
    /\ rendered = NotRendered
    /\ localStorage = [authToken |-> <<>>, scraped |-> [u \in Urls |-> <<>>]]
    /\ inflight = [c \in Calls |-> NoCall]

(***************************************************************************)
(* Text.                                                                   *)
(***************************************************************************)
UpperChars == <<"A","B","C","D","E","F","G","H","I","J","K","L","M",
                "N","O","P","Q","R","S","T","U","V","W","X","Y","Z">>
LowerChars == <<"a","b","c","d","e","f","g","h","i","j","k","l","m",
                "n","o","p","q","r","s","t","u","v","w","x","y","z">>
DigitChars == <<"0","1","2","3","4","5","6","7","8","9">>

LowerChar(c) ==
    IF \E i \in 1..Len(UpperChars) : UpperChars[i] = c
    THEN LowerChars[CHOOSE i \in 1..Len(UpperChars) : UpperChars[i] = c]
    ELSE c

\* String.prototype.toLowerCase
ToLowerCase(s) == [i \in 1..Len(s) |-> LowerChar(s[i])]

IsSpace(c) == c \in {" ", "\t", "\n"}

RECURSIVE TrimStart(_)
TrimStart(s) ==
    IF s # <<>> /\ IsSpace(Head(s)) THEN TrimStart(Tail(s)) ELSE s

RECURSIVE TrimEnd(_)
TrimEnd(s) ==
    IF s # <<>> /\ IsSpace(s[Len(s)]) THEN TrimEnd(SubSeq(s, 1, Len(s) - 1)) ELSE s

\* String.prototype.trim
Trim(s) == TrimEnd(TrimStart(s))

\* String.prototype.includes
Includes(s, sub) ==
    \E i \in 0..(Len(s) - Len(sub)) : SubSeq(s, i + 1, i + Len(sub)) = sub

\* String.prototype.indexOf for a one-character needle: 0-based, -1 when absent
IndexOf(s, c) ==
    IF \E i \in 1..Len(s) : s[i] = c
    THEN (CHOOSE i \in 1..Len(s) : s[i] = c /\ \A j \in 1..(i - 1) : s[j] # c) - 1
    ELSE -1

\* String.prototype.lastIndexOf for a one-character needle
LastIndexOf(s, c) ==
    IF \E i \in 1..Len(s) : s[i] = c
    THEN (CHOOSE i \in 1..Len(s) : s[i] = c /\ \A j \in (i + 1)..Len(s) : s[j] # c) - 1
    ELSE -1

\* String.prototype.substring(from), 0-based
Substring(s, from) == SubSeq(s, from + 1, Len(s))

RECURSIVE Concat(_)
Concat(ss) == IF ss = <<>> THEN <<>> ELSE Head(ss) \o Concat(Tail(ss))

\* the texts the code compares against
tExhibitor == <<"e","x","h","i","b","i","t","o","r">>
tName == <<"n","a","m","e">>
tExhibitorName == <<"E","x","h","i","b","i","t","o","r"," ","N","a","m","e">>
tRibbon == <<"r","i","b","b","o","n">>
tAward == <<"a","w","a","r","d">>
tClub == <<"c","l","u","b">>
tPlacing == <<"p","l","a","c","i","n","g">>
tGeneral == <<"G","e","n","e","r","a","l">>
ClubKeywords ==
    << <<"C","l","o","v","e","r","s">>, <<"S","t","o","c","k","m","e","n">>,
       <<"G","e","t","t","e","r","s">>, <<"V","e","n","t","u","r","e","r","s">>,
       <<"F","F","A">>, <<"M","o","u","n","t","i","e","s">>,
       <<"R","o","l","l","i","n","g"," ","R","i","v","e","r">>,
       <<"P","u","l","s","e">>, <<"4","-","H">>, <<"C","l","u","b">> >>

(***************************************************************************)
(* JavaScript objects with string keys.                                    *)
(***************************************************************************)
IsDigit(c) == \E i \in 1..Len(DigitChars) : DigitChars[i] = c
DigitValue(c) == (CHOOSE i \in 1..Len(DigitChars) : DigitChars[i] = c) - 1

RECURSIVE NumValue(_)
NumValue(s) ==
    IF s = <<>> THEN 0
    ELSE 10 * NumValue(SubSeq(s, 1, Len(s) - 1)) + DigitValue(s[Len(s)])

\* a canonical array index: decimal digits, no leading zero, below 2^32 - 1
\* (keys of up to nine digits, all of which are below that limit)
IsArrayIndex(k) ==
    /\ Len(k) >= 1
    /\ Len(k) <= 9
    /\ \A i \in 1..Len(k) : IsDigit(k[i])
    /\ (Len(k) > 1 => k[1] # "0")

HasKey(obj, k) == \E i \in 1..Len(obj) : obj[i].k = k
Get(obj, k) == obj[CHOOSE i \in 1..Len(obj) : obj[i].k = k].v
Keys(obj) == [i \in 1..Len(obj) |-> obj[i].k]

\* where a new key is inserted so that enumeration stays in Object.keys order
InsertAt(obj, k) ==
    IF IsArrayIndex(k)
    THEN Cardinality({i \in 1..Len(obj) :
                        IsArrayIndex(obj[i].k) /\ NumValue(obj[i].k) < NumValue(k)})
    ELSE Len(obj)

\* an assignment that leaves a key alone once it is set
PutKeepsFirst(obj, k, v) ==
    IF HasKey(obj, k)
    THEN obj
    ELSE LET n == InsertAt(obj, k)
         IN  SubSeq(obj, 1, n) \o <<[k |-> k, v |-> v]>> \o SubSeq(obj, n + 1, Len(obj))

\* obj[k] = v
Put(obj, k, v) ==
    IF HasKey(obj, k)
    THEN [i \in 1..Len(obj) |-> IF obj[i].k = k THEN [k |-> k, v |-> v] ELSE obj[i]]
    ELSE LET n == InsertAt(obj, k)
         IN  SubSeq(obj, 1, n) \o <<[k |-> k, v |-> v]>> \o SubSeq(obj, n + 1, Len(obj))

(***************************************************************************)
(* The rendered results page.  A page has a table or not; a table is its   *)
(* rows in document order.  A row is                                       *)
(*   th    : whether it contains a th[colspan] cell,                       *)
(*   spans : the textContent of the <span>s inside that cell, in order,    *)
(*   cells : the textContent of its td/th cells, in order.                 *)
(* All rows share one parent, so the first row is the only tr:first-child  *)
(* and the table has no separate thead.                                    *)
(***************************************************************************)
NoColumns ==
    [nameCol |-> -1, ribbonCol |-> -1, awardsCol |-> -1, clubCol |-> -1,
     placingCol |-> -1]

\* headers = Array.from(headerCells).map(th => th.textContent.trim())
HeaderTexts(rows) ==
    IF rows = <<>> THEN <<>>
    ELSE [i \in 1..Len(rows[1].cells) |-> Trim(rows[1].cells[i])]

\* one iteration of headers.forEach: the else-if chain, index is 0-based
ColumnStep(cols, header, index) ==
    LET headerLower == ToLowerCase(header)
    IN  IF Includes(headerLower, tExhibitor) /\ Includes(headerLower, tName)
        THEN [cols EXCEPT !.nameCol = index]
        ELSE IF Includes(headerLower, tRibbon)
        THEN [cols EXCEPT !.ribbonCol = index]
        ELSE IF Includes(headerLower, tAward)
        THEN [cols EXCEPT !.awardsCol = index]
        ELSE IF Includes(headerLower, tClub)
        THEN [cols EXCEPT !.clubCol = index]
        ELSE IF Includes(headerLower, tPlacing)
        THEN [cols EXCEPT !.placingCol = index]
        ELSE cols

RECURSIVE ResolveFrom(_, _, _)
ResolveFrom(headers, index, cols) ==
    IF index >= Len(headers) THEN cols
    ELSE ResolveFrom(headers, index + 1, ColumnStep(cols, headers[index + 1], index))

\* the column indices found from the header texts
ResolveColumns(headers) == ResolveFrom(headers, 0, NoColumns)

\* col >= 0 && col < cellTexts.length ? cellTexts[col]
\*   : cellTexts.length > fallback ? cellTexts[fallback] : ''
CellAt(cellTexts, col, fallback) ==
    IF col >= 0 /\ col < Len(cellTexts) THEN cellTexts[col + 1]
    ELSE IF Len(cellTexts) > fallback THEN cellTexts[fallback + 1]
    ELSE <<>>

FallbackName == 1
FallbackRibbon == 4
FallbackPlacing == 5
FallbackAwards == 6

CellTexts(row) == [i \in 1..Len(row.cells) |-> Trim(row.cells[i])]

\* HeaderSubcategory with a header that names no subcategory falling back to
\* "General" instead of keeping the running value
HeaderSubcategoryResets(row, currentSubcategory) ==
    IF Len(row.spans) > 0
    THEN LET lastSpanText == Trim(row.spans[Len(row.spans)])
             colonIndex == IndexOf(lastSpanText, ":")
         IN  IF Includes(lastSpanText, <<":">>) /\ colonIndex > 0
             THEN Trim(Substring(lastSpanText, colonIndex + 1))
             ELSE tGeneral
    ELSE tGeneral

\* HeaderSubcategory taking a colon at index 0 as well
HeaderSubcategoryAnyColon(row, currentSubcategory) ==
    IF Len(row.spans) > 0
    THEN LET lastSpanText == Trim(row.spans[Len(row.spans)])
             colonIndex == IndexOf(lastSpanText, ":")
         IN  IF Includes(lastSpanText, <<":">>) /\ colonIndex >= 0
             THEN Trim(Substring(lastSpanText, colonIndex + 1))
             ELSE currentSubcategory
    ELSE currentSubcategory

\* the value of currentSubcategory after a th[colspan] row
HeaderSubcategory(row, currentSubcategory) ==
    IF Len(row.spans) > 0
    THEN LET lastSpanText == Trim(row.spans[Len(row.spans)])
             colonIndex == IndexOf(lastSpanText, ":")
         IN  IF Includes(lastSpanText, <<":">>) /\ colonIndex > 0
             THEN Trim(Substring(lastSpanText, colonIndex + 1))
             ELSE currentSubcategory
    ELSE currentSubcategory

\* SkipRow comparing without toLowerCase
SkipRowCaseSensitive(exhibitorName) ==
    \/ exhibitorName = <<>>
    \/ Includes(exhibitorName, tExhibitor)
    \/ exhibitorName = tExhibitorName

\* the guard that skips a data row
SkipRow(exhibitorName) ==
    \/ exhibitorName = <<>>
    \/ Includes(ToLowerCase(exhibitorName), tExhibitor)
    \/ exhibitorName = tExhibitorName

IsClubText(text) == \E i \in 1..Len(ClubKeywords) : Includes(text, ClubKeywords[i])

\* club from the resolved column, else the first cell text with a keyword
ClubOf(cellTexts, clubCol) ==
    LET club == IF clubCol >= 0 /\ clubCol < Len(cellTexts)
                THEN cellTexts[clubCol + 1] ELSE <<>>
    IN  IF club # <<>> THEN club
        ELSE IF \E i \in 1..Len(cellTexts) : IsClubText(cellTexts[i])
        THEN cellTexts[CHOOSE i \in 1..Len(cellTexts) :
                          /\ IsClubText(cellTexts[i])
                          /\ \A j \in 1..(i - 1) : ~IsClubText(cellTexts[j])]
        ELSE <<>>

\* one iteration of allTableRows.forEach; st = [cur, results]
RowStep(st, row, cols) ==
    LET cellTexts == CellTexts(row)
        exhibitorName == CellAt(cellTexts, cols.nameCol, FallbackName)
    IN  IF Len(row.cells) = 0 THEN st
        ELSE IF row.th
        THEN [st EXCEPT !.cur = HeaderSubcategory(row, st.cur)]
        ELSE IF SkipRow(exhibitorName) THEN st
        ELSE [st EXCEPT !.results = Append(st.results,
                [name |-> exhibitorName,
                 ribbon |-> CellAt(cellTexts, cols.ribbonCol, FallbackRibbon),
                 awards |-> CellAt(cellTexts, cols.awardsCol, FallbackAwards),
                 placing |-> CellAt(cellTexts, cols.placingCol, FallbackPlacing),
                 club |-> ClubOf(cellTexts, cols.clubCol),
                 subcategory |-> st.cur])]

RECURSIVE ProcessRows(_, _, _, _)
ProcessRows(rows, i, cols, st) ==
    IF i > Len(rows) THEN st
    ELSE ProcessRows(rows, i + 1, cols, RowStep(st, rows[i], cols))

\* extractCategoryResults reporting a table without accepted rows as missing
extractEmptyIsError(pg) ==
    LET found == ProcessRows(pg.rows, 1, ResolveColumns(HeaderTexts(pg.rows)),
                             [cur |-> tGeneral, results |-> <<>>]).results
    IN  IF ~pg.hasTable \/ found = <<>>
        THEN [hasError |-> TRUE, error |-> "No table found",
              hasResults |-> TRUE, results |-> <<>>]
        ELSE [hasError |-> FALSE, error |-> "", hasResults |-> TRUE, results |-> found]

\* what page.evaluate returns in extractCategoryResults; an outcome is
\* [hasError, error, hasResults, results]
extractCategoryResults(pg) ==
    IF ~pg.hasTable
    THEN [hasError |-> TRUE, error |-> "No table found",
          hasResults |-> TRUE, results |-> <<>>]
    ELSE [hasError |-> FALSE, error |-> "",
          hasResults |-> TRUE,
          results |-> ProcessRows(pg.rows, 1, ResolveColumns(HeaderTexts(pg.rows)),
                                  [cur |-> tGeneral, results |-> <<>>]).results]

(***************************************************************************)
(* transformScrapedData and cleanForSerialization.  A report entry is      *)
(* [isError, error, subcategories, totalEntries].                          *)
(***************************************************************************)
ErrorEntry(message) ==
    [isError |-> TRUE, error |-> message, subcategories |-> <<>>, totalEntries |-> 0]

\* GroupStep merging an entry whose name is already in its subcategory list
GroupStepMerging(subcategoryGroups, entry) ==
    IF entry.name = <<>> THEN subcategoryGroups
    ELSE LET subcategory == IF entry.subcategory # <<>> THEN entry.subcategory
                            ELSE tGeneral
             old == IF HasKey(subcategoryGroups, subcategory)
                    THEN Get(subcategoryGroups, subcategory) ELSE <<>>
         IN  IF \E i \in 1..Len(old) : old[i].name = entry.name
             THEN subcategoryGroups
             ELSE Put(subcategoryGroups, subcategory,
                      Append(old, [name |-> entry.name, club |-> entry.club,
                                   placing |-> entry.placing, awards |-> entry.awards,
                                   ribbon |-> entry.ribbon]))

\* GroupStep putting the entry at the head of its list (unshift for push)
GroupStepPrepends(subcategoryGroups, entry) ==
    IF entry.name = <<>> THEN subcategoryGroups
    ELSE LET subcategory == IF entry.subcategory # <<>> THEN entry.subcategory
                            ELSE tGeneral
             old == IF HasKey(subcategoryGroups, subcategory)
                    THEN Get(subcategoryGroups, subcategory) ELSE <<>>
         IN  Put(subcategoryGroups, subcategory,
                 <<[name |-> entry.name, club |-> entry.club,
                    placing |-> entry.placing, awards |-> entry.awards,
                    ribbon |-> entry.ribbon]>> \o old)

\* one iteration of categoryData.results.forEach
GroupStep(subcategoryGroups, entry) ==
    IF entry.name = <<>> THEN subcategoryGroups
    ELSE LET subcategory == IF entry.subcategory # <<>> THEN entry.subcategory
                            ELSE tGeneral
             old == IF HasKey(subcategoryGroups, subcategory)
                    THEN Get(subcategoryGroups, subcategory) ELSE <<>>
         IN  Put(subcategoryGroups, subcategory,
                 Append(old, [name |-> entry.name, club |-> entry.club,
                              placing |-> entry.placing, awards |-> entry.awards,
                              ribbon |-> entry.ribbon]))

RECURSIVE GroupFrom(_, _, _)
GroupFrom(entries, i, subcategoryGroups) ==
    IF i > Len(entries) THEN subcategoryGroups
    ELSE GroupFrom(entries, i + 1, GroupStep(subcategoryGroups, entries[i]))

\* the report entry of one category
TransformCategory(categoryData) ==
    IF categoryData.hasError /\ categoryData.error # ""
    THEN ErrorEntry(categoryData.error)
    ELSE IF ~categoryData.hasResults
    THEN ErrorEntry("No valid results found")
    ELSE [isError |-> FALSE, error |-> "",
          subcategories |-> GroupFrom(categoryData.results, 1, <<>>),
          totalEntries |-> Len(categoryData.results)]

RECURSIVE TransformFrom(_, _, _)
TransformFrom(rawResults, i, transformedData) ==
    IF i > Len(rawResults) THEN transformedData
    ELSE TransformFrom(rawResults, i + 1,
            Put(transformedData, rawResults[i].k, TransformCategory(rawResults[i].v)))

transformScrapedData(rawResults) == TransformFrom(rawResults, 1, <<>>)

\* JSON.parse(JSON.stringify(obj)): the keys are re-inserted in enumeration order
RECURSIVE Reinsert(_, _, _)
Reinsert(obj, i, acc) ==
    IF i > Len(obj) THEN acc
    ELSE Reinsert(obj, i + 1, Put(acc, obj[i].k, obj[i].v))

cleanForSerialization(data) ==
    Reinsert([i \in 1..Len(data) |->
                [k |-> data[i].k,
                 v |-> [data[i].v EXCEPT
                          !.subcategories = Reinsert(data[i].v.subcategories, 1, <<>>)]]],
             1, <<>>)

(***************************************************************************)
(* Inputs of SpecExtract: the rows a results table is made of.             *)
(***************************************************************************)
ThRow(spans) == [th |-> TRUE, spans |-> spans, cells |-> <<Concat(spans)>>]
DataRow(cells) == [th |-> FALSE, spans |-> <<>>, cells |-> cells]

sAnn == <<"A","n","n">>
sBob == <<"B","o","b">>
sClassA == <<"C","l","a","s","s",":"," ","A">>
sDept == <<"D","e","p","t"," ">>
sLot1 == <<"L","o","t",":"," ","1">>
sResults == <<"R","e","s","u","l","t","s">>
sColonX == <<":"," ","X">>

RowVocab ==
    { ThRow(<<sClassA>>),                 \* sets "A"
      ThRow(<<sDept, sLot1>>),            \* sets "1", from the last span
      ThRow(<<sResults>>),                \* no colon
      ThRow(<<sColonX>>),                 \* colon at index 0
      DataRow(<< <<"1">>, sAnn >>),
      DataRow(<< <<"2">>, <<" ">> \o sBob \o <<" ">> >>),
      DataRow(<< <<"3">>, <<" ">> >>),    \* no name
      DataRow(<< <<"#">>, tExhibitorName >>),
      DataRow(<< <<"4">>, <<"E","X","H","I","B","I","T","O","R">> >>) }

Tables == UNION {[1..n -> RowVocab] : n \in 0..MaxRows}
Pages == {[hasTable |-> FALSE, rows |-> <<>>]}
            \cup {[hasTable |-> TRUE, rows |-> t] : t \in Tables}

\* the category the single page belongs to
XName == <<"G","o","a","t","s">>

NoOutcome == [hasError |-> FALSE, error |-> "", hasResults |-> FALSE, results |-> <<>>]

\* const categoryResults = await extractCategoryResults(page, ...)
XExtract ==
    /\ xpc = "page"
    /\ xraw' = extractCategoryResults(xpage)
    /\ xpc' = "extracted"
    /\ UNCHANGED <<xpage, xreport>>
    /\ UNCHANGED <<reqVars, uiVars>>

\* results[name] = categoryResults; transformScrapedData; cleanForSerialization
XTransform ==
    /\ xpc = "extracted"
    /\ xreport' = cleanForSerialization(transformScrapedData(Put(<<>>, XName, xraw)))
    /\ xpc' = "transformed"
    /\ UNCHANGED <<xpage, xraw>>
    /\ UNCHANGED <<reqVars, uiVars>>

NoPage == [hasTable |-> FALSE, rows |-> <<>>]

\* a rendered page is handed to the extractor; no request is being served
XInit ==
    /\ NoApp
    /\ xpage \in Pages
    /\ xpc = "page"
    /\ xraw = NoOutcome
    /\ xreport = <<>>
    /\ req = [route |-> "none"]
    /\ site = [hasSelect |-> FALSE, options |-> <<>>, controls |-> {}, form |-> FALSE]
    /\ pc = "idle"
    /\ browser = FALSE
    /\ open = 0
    /\ launched = 0
    /\ exc = ""
    /\ list = <<>>
    /\ idx = 0
    /\ page = NoPage
    /\ results = <<>>
    /\ steps = <<>>
    /\ invocations = 0
    /\ outcomes = <<>>
    /\ discovered = <<>>
    /\ discoverCalls = 0
    /\ context = "none"
    /\ response = [status |-> 0, data |-> <<>>, categories |-> <<>>]

XNext == XExtract \/ XTransform

SpecExtract == XInit /\ [][XNext]_vars

(***************************************************************************)
(* Properties of extraction and transformation (SpecExtract).              *)
(***************************************************************************)
XRows == xpage.rows
XCols == ResolveColumns(HeaderTexts(XRows))
XNameIn(cols, k) == CellAt(CellTexts(XRows[k]), cols.nameCol, FallbackName)
XNameOf(k) == XNameIn(XCols, k)

\* the rows that are data rows yielding an entry
XAcceptedRows ==
    LET cols == XCols
    IN  {k \in 1..Len(XRows) :
            /\ Len(XRows[k].cells) > 0
            /\ ~XRows[k].th
            /\ ~SkipRow(XNameIn(cols, k))}

\* row j is a header row that names a subcategory, and the name it gives
XNamesSubcategory(j) ==
    /\ XRows[j].th
    /\ Len(XRows[j].spans) > 0
    /\ IndexOf(Trim(XRows[j].spans[Len(XRows[j].spans)]), ":") > 0
XSubcategoryNamed(j) ==
    LET t == Trim(XRows[j].spans[Len(XRows[j].spans)])
    IN  Trim(Substring(t, IndexOf(t, ":") + 1))

\* the subcategory in force at row k: a function of the rows before k only
XSubcategoryAt(k) ==
    LET before == {j \in 1..(k - 1) : XNamesSubcategory(j)}
    IN  IF before = {} THEN tGeneral
        ELSE XSubcategoryNamed(CHOOSE j \in before : \A i \in before : i <= j)

\* C4: every accepted data row is tagged with the subcategory named by the
\* most recent header row before it that names one, "General" when there is
\* none; the tag is a function of the preceding rows alone, and every
\* extraction starts from "General".
C4_PositionalSubcategory ==
    (xpc # "page" /\ xpage.hasTable) =>
        LET cols == XCols
            accepted == XAcceptedRows
            nth(n) == CHOOSE k \in accepted :
                          Cardinality({j \in accepted : j <= k}) = n
        IN  /\ Len(xraw.results) = Cardinality(accepted)
            /\ \A n \in 1..Len(xraw.results) :
                  /\ xraw.results[n].name = XNameIn(cols, nth(n))
                  /\ xraw.results[n].subcategory = XSubcategoryAt(nth(n))

\* the rows [header "A", row, header "1", row] with the same row twice
C4_Witness ==
    /\ xpc = "extracted"
    /\ Len(xraw.results) = 2
    /\ xraw.results[1].name = xraw.results[2].name
    /\ xraw.results[1].subcategory = <<"A">>
    /\ xraw.results[2].subcategory = <<"1">>

\* C5: extraction answers "No table found" exactly when the page has no
\* table; a table without accepted rows gives an empty list and no error.
C5_NoTableIffError ==
    (xpc # "page") =>
        /\ (xraw.hasError /\ xraw.error = "No table found") <=> ~xpage.hasTable
        /\ xpage.hasTable => (~xraw.hasError /\ xraw.hasResults)
        /\ (xpage.hasTable /\ XAcceptedRows = {}) => xraw.results = <<>>

\* a table with rows, none of them accepted
C5_Witness ==
    /\ xpc = "extracted"
    /\ xpage.hasTable
    /\ Len(XRows) >= 2
    /\ XAcceptedRows = {}
    /\ ~xraw.hasError
    /\ xraw.results = <<>>

\* every entry of every subcategory list of the report
XReportEntries ==
    UNION {UNION {{xreport[c].v.subcategories[g].v[e] :
                      e \in 1..Len(xreport[c].v.subcategories[g].v)} :
                  g \in 1..Len(xreport[c].v.subcategories)} :
           c \in 1..Len(xreport)}

\* C6: every entry in the report has a non-empty name that is not
\* "Exhibitor Name" or "exhibitor" in any letter case.
C6_ReportedNames ==
    (xpc = "transformed") =>
        \A e \in XReportEntries :
            /\ e.name # <<>>
            /\ ToLowerCase(e.name) # tExhibitor
            /\ ToLowerCase(e.name) # ToLowerCase(tExhibitorName)

\* a table holding a nameless row, an upper-case "EXHIBITOR" row, a literal
\* "Exhibitor Name" row and a named row; only the named row is reported
C6_Witness ==
    /\ xpc = "transformed"
    /\ \E k \in 1..Len(XRows) : ~XRows[k].th /\ XNameOf(k) = <<>>
    /\ \E k \in 1..Len(XRows) : ~XRows[k].th /\ XNameOf(k) = tExhibitorName
    /\ \E k \in 1..Len(XRows) :
          ~XRows[k].th /\ XNameOf(k) # tExhibitor /\ ToLowerCase(XNameOf(k)) = tExhibitor
    /\ Cardinality(XReportEntries) = 1

RECURSIVE SumLens(_, _)
SumLens(obj, i) == IF i > Len(obj) THEN 0 ELSE Len(obj[i].v) + SumLens(obj, i + 1)

\* C7: for a category without error, totalEntries is the number of accepted
\* data rows and the sum of the lengths of its subcategory lists.
C7_TotalEntries ==
    (xpc = "transformed") =>
        \A c \in 1..Len(xreport) :
            ~xreport[c].v.isError =>
                /\ xreport[c].v.totalEntries = Cardinality(XAcceptedRows)
                /\ xreport[c].v.totalEntries = SumLens(xreport[c].v.subcategories, 1)

\* two accepted rows with the same name and subcategory, both kept
C7_Witness ==
    /\ xpc = "transformed"
    /\ Len(xreport) = 1
    /\ ~xreport[1].v.isError
    /\ xreport[1].v.totalEntries = 2
    /\ Len(xreport[1].v.subcategories) = 1
    /\ Len(xreport[1].v.subcategories[1].v) = 2
    /\ xreport[1].v.subcategories[1].v[1] = xreport[1].v.subcategories[1].v[2]

\* the list key of a raw entry, and the entry as the report holds it
XKeyOf(entry) == IF entry.subcategory # <<>> THEN entry.subcategory ELSE tGeneral
XShown(entry) ==
    [name |-> entry.name, club |-> entry.club, placing |-> entry.placing,
     awards |-> entry.awards, ribbon |-> entry.ribbon]

RECURSIVE XWithKey(_, _)
XWithKey(entries, key) ==
    IF entries = <<>> THEN <<>>
    ELSE IF Head(entries).name # <<>> /\ XKeyOf(Head(entries)) = key
    THEN <<XShown(Head(entries))>> \o XWithKey(Tail(entries), key)
    ELSE XWithKey(Tail(entries), key)

RECURSIVE XFirstSeen(_, _)
XFirstSeen(entries, seen) ==
    IF entries = <<>> THEN seen
    ELSE IF Head(entries).name = <<>>
            \/ \E i \in 1..Len(seen) : seen[i] = XKeyOf(Head(entries))
    THEN XFirstSeen(Tail(entries), seen)
    ELSE XFirstSeen(Tail(entries), Append(seen, XKeyOf(Head(entries))))

\* the lists hold exactly the named entries of their key, in row order
XPlacement ==
    (xpc = "transformed" /\ xpage.hasTable) =>
        LET groups == xreport[1].v.subcategories
        IN  /\ {groups[g].k : g \in 1..Len(groups)}
                  = {XKeyOf(xraw.results[i]) : i \in 1..Len(xraw.results)}
            /\ \A g \in 1..Len(groups) :
                  /\ groups[g].v = XWithKey(xraw.results, groups[g].k)
                  /\ \A h \in 1..Len(groups) : groups[h].k = groups[g].k => h = g

\* C8: transform puts each named entry in exactly one list, the one keyed by
\* its subcategory ("General" when it has none), losing, duplicating and
\* altering nothing; the subcategories enumerate in first-seen order and
\* each list keeps row order.
C8_GroupingKeepsOrder ==
    /\ XPlacement
    /\ (xpc = "transformed" /\ xpage.hasTable) =>
          Keys(xreport[1].v.subcategories) = XFirstSeen(xraw.results, <<>>)

(***************************************************************************)
(* One request against the backend (specification Spec).                   *)
(*                                                                         *)
(* The landing page.                                                       *)
(***************************************************************************)
Option(value, text) == [value |-> value, text |-> text]

sGoats == <<"G","o","a","t","s">>
sSheep == <<"S","h","e","e","p">>
oGoatsA == Option(<<"v","1">>, <<"A"," ","/"," ">> \o sGoats)
oGoatsB == Option(<<"v","2">>, <<"B"," ","/"," ">> \o sGoats \o <<" ">>)
oSheep == Option(<<"v","3">>, sSheep)
oPrompt == Option(<<>>, <<"S","e","l","e","c","t">>)

oBlank == Option(<<"v","4">>, <<" ">>)

OptionVocab == {oGoatsA, oGoatsB, oSheep, oPrompt, oBlank}

\* the selectors the submit script tries, in order (searchSelectors), and
\* whether document.querySelector accepts them: ':contains' is not a CSS
\* pseudo-class, so querySelector throws a SyntaxError on the third
sSubmitButton == "button[type=submit]"
sSubmitInput == "input[type=submit]"
sContains == "button:contains(Search)"
sBtnSearch == ".btn-search"
sSearchBtn == "#search-btn"
sValueSearch == "[value=Search]"
sButton == "button"
searchSelectors ==
    <<sSubmitButton, sSubmitInput, sContains, sBtnSearch, sSearchBtn,
      sValueSearch, sButton>>
ValidSelector(selector) == selector # sContains

\* what the landing page offers for submission: `controls` holds the
\* selectors whose first match has text or class containing "search" or is of
\* type submit; `form` says whether the page has a <form>
Looks ==
    { [controls |-> {sSubmitButton, sButton}, form |-> TRUE],   \* <button type="submit">
      [controls |-> {sButton}, form |-> TRUE],                  \* <button>Search</button>
      [controls |-> {}, form |-> TRUE],                         \* a <form> without a button
      [controls |-> {}, form |-> FALSE] }                       \* a bare <select>

Site(hasSelect, options, look) ==
    [hasSelect |-> hasSelect, options |-> options,
     controls |-> look.controls, form |-> look.form]

Sites ==
    {Site(FALSE, <<>>, look) : look \in Looks}
        \cup {Site(TRUE, o, look) :
                o \in UNION {[1..n -> OptionVocab] : n \in 0..MaxCats},
                look \in Looks}

\* the pages a category's submission can render
ResultPages ==
    { [hasTable |-> TRUE, rows |-> <<>>],
      [hasTable |-> TRUE,
       rows |-> <<ThRow(<<sClassA>>), DataRow(<< <<"1">>, sAnn >>)>>] }

\* option.textContent.trim().split('/').pop().trim()
DisplayName(text) ==
    LET t == Trim(text)
    IN  Trim(Substring(t, LastIndexOf(t, "/") + 1))

\* OptionsFrom keeping every option that has a value, blank text or not
RECURSIVE OptionsFromWithValue(_, _)
OptionsFromWithValue(opts, i) ==
    IF i > Len(opts) THEN <<>>
    ELSE IF opts[i].value # <<>>
    THEN <<[value |-> opts[i].value, text |-> Trim(opts[i].text),
            displayName |-> DisplayName(opts[i].text)]>>
            \o OptionsFromWithValue(opts, i + 1)
    ELSE OptionsFromWithValue(opts, i + 1)

RECURSIVE OptionsFrom(_, _)
OptionsFrom(opts, i) ==
    IF i > Len(opts) THEN <<>>
    ELSE IF opts[i].value # <<>> /\ Trim(opts[i].text) # <<>>
    THEN <<[value |-> opts[i].value, text |-> Trim(opts[i].text),
            displayName |-> DisplayName(opts[i].text)]>> \o OptionsFrom(opts, i + 1)
    ELSE OptionsFrom(opts, i + 1)

\* what page.evaluate returns in discoverCategories
discoverEvaluate(st) == IF ~st.hasSelect THEN <<>> ELSE OptionsFrom(st.options, 1)

\* discoveredCategories.filter(cat => selectedCategories.includes(cat.displayName))
RECURSIVE categoriesToScrape(_, _)
categoriesToScrape(cats, selected) ==
    IF cats = <<>> THEN <<>>
    ELSE IF Head(cats).displayName \in selected
    THEN <<Head(cats)>> \o categoriesToScrape(Tail(cats), selected)
    ELSE categoriesToScrape(Tail(cats), selected)

Names(cats) == {cats[i].displayName : i \in 1..Len(cats)}

MsgLaunch == "Failed to launch the browser process"
MsgNewPage == "Protocol error (Target.createTarget): Target closed"
MsgGoto == "Navigation timeout of 30000 ms exceeded"
MsgSelect == "No node found for selector: select"
MsgEvaluate == "Execution context was destroyed"
MsgSelector == "'button:contains(\"Search\")' is not a valid selector"
MsgClosed == "Protocol error: Session closed. Most likely the page has been closed"

\* the protected routes, and a request to one of them: its Authorization
\* header (hasAuthorization is FALSE when the header is absent) and what its
\* body holds
Routes == {"/discover-categories", "/scrape-all", "/scrape"}

Request(route, header, hasBaseUrl, hasCategories, categories) ==
    [route |-> route, hasAuthorization |-> header.present,
     authorization |-> header.text, baseUrl |-> hasBaseUrl,
     hasCategories |-> hasCategories, categories |-> categories]

\* process.env.AUTH_PASSWORD
AUTH_PASSWORD == <<"p","w">>
sBearer == <<"B","e","a","r","e","r"," ">>

Header(text) == [present |-> TRUE, text |-> text]
hAbsent == [present |-> FALSE, text |-> <<>>]
hBearerPw == Header(sBearer \o AUTH_PASSWORD)
Headers ==
    { hAbsent,
      hBearerPw,
      Header(<<>>),
      Header(AUTH_PASSWORD),                              \* the password alone
      Header(sBearer),                                    \* no password
      Header(sBearer \o <<"p","x">>),                     \* another password
      Header(sBearer \o AUTH_PASSWORD \o <<"x">>),        \* one character more
      Header(sBearer \o <<"p">>),                         \* a prefix of it
      Header(<<"b","e","a","r","e","r"," ">> \o AUTH_PASSWORD),
      Header(<<"B","e","a","r","e","r">> \o AUTH_PASSWORD),
      Header(<<"B","a","s","i","c"," ">> \o AUTH_PASSWORD) }

StartsWith(s, prefix) ==
    Len(s) >= Len(prefix) /\ SubSeq(s, 1, Len(prefix)) = prefix

\* requireAuth letting every header through that starts with 'Bearer '
requireAuthAnyBearer(request) ==
    /\ request.hasAuthorization
    /\ request.authorization # <<>>
    /\ StartsWith(request.authorization, sBearer)

\* requireAuth: TRUE when it calls next(), FALSE when it answers 401
requireAuth(request) ==
    /\ request.hasAuthorization
    /\ request.authorization # <<>>
    /\ StartsWith(request.authorization, sBearer)
    /\ Substring(request.authorization, 7) = AUTH_PASSWORD

NoResponse == [status |-> 0, data |-> <<>>, categories |-> <<>>]

\* the fields every request starts with
Fresh ==
    /\ NoApp
    /\ pc = "handler"
    /\ browser = FALSE
    /\ open = 0
    /\ launched = 0
    /\ exc = ""
    /\ list = <<>>
    /\ idx = 0
    /\ page = NoPage
    /\ results = <<>>
    /\ steps = <<>>
    /\ invocations = 0
    /\ outcomes = <<>>
    /\ discovered = <<>>
    /\ discoverCalls = 0
    /\ context = "none"
    /\ response = NoResponse
    /\ xpage = NoPage
    /\ xpc = "idle"
    /\ xraw = NoOutcome
    /\ xreport = <<>>

\* a request arrives: discovery, scrape-all as the UI sends it (without
\* categories from "Scrape All", with the selected descriptors of an earlier
\* discovery from "Scrape Selected"), or the manual scrape with a list of
\* option values, which never reads the landing page's options
Init ==
    /\ \/ /\ site \in Sites
          /\ \E b \in BOOLEAN :
                req = Request("/discover-categories", hBearerPw, b, FALSE, <<>>)
       \/ /\ site \in Sites
          /\ \E b \in BOOLEAN :
                req = Request("/scrape-all", hBearerPw, b, FALSE, <<>>)
       \/ /\ site \in Sites
          /\ \E selected \in {n \in SUBSET Names(discoverEvaluate(site)) :
                                 Cardinality(n) \in 1..MaxSelected} :
                req = Request("/scrape-all", hBearerPw, TRUE, TRUE,
                              categoriesToScrape(discoverEvaluate(site), selected))
       \/ /\ \E look \in Looks : site = Site(TRUE, <<oGoatsA, oSheep>>, look)
          /\ \E b \in BOOLEAN :
             \E c \in UNION {[1..n -> {sGoats, sSheep}] : n \in 0..MaxCats} :
                req = Request("/scrape", hBearerPw, b, TRUE, c)
       \/ /\ site = Site(TRUE, <<oGoatsA, oSheep>>,
                         [controls |-> {sSubmitButton, sButton}, form |-> TRUE])
          /\ \E route \in Routes, h \in Headers, b \in BOOLEAN :
                req = Request(route, h, b, route = "/scrape",
                              IF route = "/scrape" THEN <<sGoats>> ELSE <<>>)
    /\ Fresh

(***************************************************************************)
(* The handlers and the functions they run.                                *)
(***************************************************************************)
\* the key a list element is recorded under, and the value it is selected by:
\* scrapeDiscoveredCategories gets descriptors, scrapeCategories gets strings
KeyOf(category) == IF req.route = "/scrape" THEN category ELSE category.displayName
ValueOf(category) == IF req.route = "/scrape" THEN category ELSE category.value

Respond(status, data, categories) ==
    /\ response' = [status |-> status, data |-> data, categories |-> categories]
    /\ pc' = "done"

\* requireAuth, then the route handlers up to their first await
Handler ==
    /\ pc = "handler"
    /\ IF ~requireAuth(req)
       THEN Respond(401, <<>>, <<>>) /\ UNCHANGED <<list, discoverCalls>>
       ELSE IF req.route = "/scrape"
       THEN IF ~req.baseUrl \/ ~req.hasCategories \/ Len(req.categories) = 0
            THEN Respond(400, <<>>, <<>>) /\ UNCHANGED <<list, discoverCalls>>
            ELSE /\ pc' = "s_launch"
                 /\ list' = req.categories
                 /\ UNCHANGED <<response, discoverCalls>>
       ELSE IF ~req.baseUrl
            THEN Respond(400, <<>>, <<>>) /\ UNCHANGED <<list, discoverCalls>>
            ELSE /\ pc' = "d_launch"
                 /\ discoverCalls' = discoverCalls + 1
                 /\ UNCHANGED <<list, response>>
    /\ UNCHANGED <<req, site, context, browser, open, launched, exc, idx, page,
                   results, steps, invocations, outcomes, discovered, xVars, uiVars>>

\* a catch that logs the error and drops it
Swallow(error) == ""

\* catch (error) { console.error(...); throw error; }: the exception that
\* leaves the function
Rethrow(error) == error

\* browser = await puppeteer.launch(...): assigned only when launch succeeds
Launch(next, finally) ==
    /\ \/ /\ browser' = TRUE
          /\ open' = open + 1
          /\ launched' = launched + 1
          /\ pc' = next
          /\ UNCHANGED exc
       \/ /\ exc' = Rethrow(MsgLaunch)
          /\ pc' = finally
          /\ UNCHANGED <<browser, open, launched>>
    /\ UNCHANGED <<req, site, context, list, idx, page, results, steps,
                   invocations, outcomes, discovered, discoverCalls, response,
                   xVars, uiVars>>

\* an awaited browser call outside any inner try: it returns or it throws
Await(next, finally, message) ==
    /\ \/ pc' = next /\ UNCHANGED exc
       \/ pc' = finally /\ exc' = Rethrow(message)
    /\ UNCHANGED <<req, site, browser, open, launched, list, idx, page, results,
                   steps, invocations, outcomes, discovered, discoverCalls,
                   response, xVars, uiVars>>

\* finally with the close skipped when an exception is in flight
CloseBrowserOnSuccess(isOpen, assigned, error) ==
    IF assigned /\ error = "" THEN isOpen - 1 ELSE isOpen

\* finally { if (browser) await browser.close() }: the browsers left open
CloseBrowser(isOpen, assigned, error) ==
    IF assigned THEN isOpen - 1 ELSE isOpen

Finally(exit) ==
    /\ open' = CloseBrowser(open, browser, exc)
    /\ browser' = FALSE
    /\ pc' = exit
    /\ UNCHANGED <<req, site, context, launched, exc, list, idx, page, results,
                   steps, invocations, outcomes, discovered, discoverCalls,
                   response, xVars, uiVars>>

\* ---- discoverCategories ----
DLaunch == pc = "d_launch" /\ Launch("d_newPage", "d_finally")
DNewPage ==
    pc = "d_newPage" /\ Await("d_goto", "d_finally", MsgNewPage) /\ UNCHANGED context
DGoto ==
    pc = "d_goto" /\ Await("d_evaluate", "d_finally", MsgGoto) /\ UNCHANGED context

DEvaluate ==
    /\ pc = "d_evaluate"
    /\ \/ discovered' = discoverEvaluate(site) /\ UNCHANGED exc
       \/ exc' = Rethrow(MsgEvaluate) /\ UNCHANGED discovered
    /\ pc' = "d_finally"
    /\ UNCHANGED <<req, site, context, browser, open, launched, list, idx, page,
                   results, steps, invocations, outcomes, discoverCalls,
                   response, xVars, uiVars>>

DFinally == pc = "d_finally" /\ Finally("d_exit")

\* AfterDiscover answering an empty discovery of /scrape-all with an error
AfterDiscoverEmptyIsError ==
    /\ pc = "d_exit"
    /\ IF exc # "" \/ (req.route = "/scrape-all" /\ discovered = <<>>)
       THEN Respond(500, <<>>, <<>>) /\ UNCHANGED list
       ELSE IF req.route = "/discover-categories"
       THEN Respond(200, <<>>, discovered) /\ UNCHANGED list
       ELSE pc' = "s_launch" /\ list' = discovered /\ UNCHANGED response
    /\ UNCHANGED <<req, site, context, browser, open, launched, exc, idx, page,
                   results, steps, invocations, outcomes, discovered,
                   discoverCalls, xVars, uiVars>>

\* the handler resumes after discoverCategories returned or threw
AfterDiscover ==
    /\ pc = "d_exit"
    /\ IF exc # ""
       THEN Respond(500, <<>>, <<>>) /\ UNCHANGED list
       ELSE IF req.route = "/discover-categories"
       THEN Respond(200, <<>>, discovered) /\ UNCHANGED list
       ELSE pc' = "s_launch" /\ list' = discovered /\ UNCHANGED response
    /\ UNCHANGED <<req, site, context, browser, open, launched, exc, idx, page,
                   results, steps, invocations, outcomes, discovered,
                   discoverCalls, xVars, uiVars>>

\* ---- scrapeDiscoveredCategories / scrapeCategories ----
SLaunch == pc = "s_launch" /\ Launch("s_newPage", "s_finally")

\* const page = await browser.newPage(): the one page of the run
SNewPage ==
    /\ pc = "s_newPage"
    /\ Await("s_loop", "s_finally", MsgNewPage)
    /\ context' = IF pc' = "s_loop" THEN "usable" ELSE context

\* a loop that skips an element whose value was already driven
NextIndexDistinct(categories, i) ==
    IF \E n \in (i + 1)..Len(categories) :
          \A j \in 1..(n - 1) : ValueOf(categories[j]) # ValueOf(categories[n])
    THEN CHOOSE n \in (i + 1)..Len(categories) :
           /\ \A j \in 1..(n - 1) : ValueOf(categories[j]) # ValueOf(categories[n])
           /\ \A m \in (i + 1)..(n - 1) :
                 \E j \in 1..(m - 1) : ValueOf(categories[j]) = ValueOf(categories[m])
    ELSE Len(categories) + 1

\* for (const category of ...): the index of the next element
NextIndex(categories, i) == i + 1

\* a loop body that navigates for the first category only
FirstStepNavigatesOnce(i) == IF i = 1 THEN "c_goto" ELSE "c_select"

\* the first statement of the loop body, for the i-th category: page.goto
FirstStep(i) == "c_goto"

SLoop ==
    /\ pc = "s_loop"
    /\ LET n == NextIndex(list, idx)
       IN  IF n <= Len(list)
           THEN /\ idx' = n
                /\ invocations' = invocations + 1
                /\ steps' = <<>>
                /\ pc' = FirstStep(n)
           ELSE /\ pc' = "s_finally"
                /\ UNCHANGED <<idx, invocations, steps>>
    /\ UNCHANGED <<req, site, context, browser, open, launched, exc, list, page,
                   results, outcomes, discovered, discoverCalls, response, xVars, uiVars>>

\* a catch block that records nothing
CatchCategoryDrops(res, key, message) == res

\* catch (categoryError) { results[name] = { error: categoryError.message } }
CatchCategory(res, key, message) ==
    Put(res, key, [hasError |-> TRUE, error |-> message,
                   hasResults |-> FALSE, results |-> <<>>])

\* a call of the current category failed: the inner catch ends the iteration
Caught(message) ==
    /\ results' = CatchCategory(results, KeyOf(list[idx]), message)
    /\ outcomes' = Append(outcomes, [failed |-> TRUE, error |-> message,
                                     raw |-> NoOutcome, steps |-> steps])
    /\ steps' = <<>>
    /\ page' = NoPage
    /\ pc' = "s_loop"

\* a call of the current category succeeded
Done(ops, next) ==
    /\ steps' = steps \o ops
    /\ pc' = next
    /\ UNCHANGED <<results, outcomes, page>>

\* how an awaited page call of the loop body ends: it returns, it rejects
\* for a reason of its own, or the page or the browser behind it is gone,
\* now or since an earlier call, and it rejects for that
Works(ops, next) == context = "usable" /\ UNCHANGED context /\ Done(ops, next)
Fails(message) == context = "usable" /\ UNCHANGED context /\ Caught(message)
Lost == context' = "lost" /\ Caught(MsgClosed)

\* await page.goto(baseUrl, ...)
CGoto ==
    /\ pc = "c_goto"
    /\ \/ Works(<<"goto">>, "c_select")
       \/ Fails(MsgGoto)
       \/ Lost
    /\ UNCHANGED <<req, site, browser, open, launched, exc, list, idx,
                   invocations, discovered, discoverCalls, response, xVars, uiVars>>

\* await page.select('select', category.value)
CSelect ==
    /\ pc = "c_select"
    /\ \/ Works(<<"select">>, "c_submit")
       \/ Fails(MsgSelect)
       \/ Lost
    /\ UNCHANGED <<req, site, browser, open, launched, exc, list, idx,
                   invocations, discovered, discoverCalls, response, xVars, uiVars>>

\* the for loop of the submit script from the i-th selector on: "throw" when
\* querySelector rejects the selector, "click" when a control is clicked,
\* "none" when the loop ends without a click
RECURSIVE ClickFrom(_, _)
ClickFrom(st, i) ==
    IF i > Len(searchSelectors) THEN "none"
    ELSE IF ~ValidSelector(searchSelectors[i]) THEN "throw"
    ELSE IF searchSelectors[i] \in st.controls THEN "click"
    ELSE ClickFrom(st, i + 1)

\* the script page.evaluate runs to submit: what it does on the landing page
submitScript(st) ==
    LET clicked == ClickFrom(st, 1)
    IN  IF clicked # "none" THEN clicked
        ELSE IF st.form THEN "form.submit"
        ELSE "false"

\* searchClicked = await page.evaluate(...); if (!searchClicked) { await
\* page.focus('select'); await page.keyboard.press('Enter') }
CSubmit ==
    /\ pc = "c_submit"
    /\ LET did == submitScript(site)
       IN  \/ did = "click" /\ Works(<<"click">>, "c_wait")
           \/ did = "form.submit" /\ Works(<<"form.submit">>, "c_wait")
           \/ did = "false" /\ Works(<<"focus", "press">>, "c_wait")
           \/ did = "false" /\ Fails(MsgSelect)
           \/ did = "throw" /\ Fails(MsgSelector)
           \/ Fails(MsgEvaluate)
           \/ Lost
    /\ UNCHANGED <<req, site, browser, open, launched, exc, list, idx,
                   invocations, discovered, discoverCalls, response, xVars, uiVars>>

\* page.waitForSelector('table', { timeout: 10000 })
TableTimeout == 10000

\* a wait that goes on for as long as no table shows up
WaitNeverTimesOut(timeout) == FALSE

\* whether a waitForSelector with this timeout option gives up: 0 disables
\* the timeout
WaitTimesOut(timeout) == timeout > 0

MsgWait == "Waiting for selector table failed: Waiting failed: 10000ms exceeded"

\* a wait without a try of its own: its rejection ends the iteration in the
\* category's catch
WaitRejectedFailsCategory == Caught(MsgWait)

\* catch (e) { console.log('No table found, may be empty category') }: the
\* rejection of the wait is dropped and the loop body goes on to extraction
WaitRejected ==
    /\ page' = NoPage
    /\ steps' = Append(steps, "waitForSelector")
    /\ pc' = "c_extract"
    /\ UNCHANGED <<results, outcomes>>

\* the 3 s sleep, then waitForSelector('table') inside its own try: a table
\* shows up, or none does and the wait times out, or the page is gone; the
\* rejection is swallowed either way
CWait ==
    /\ pc = "c_wait"
    /\ \/ /\ context = "usable"
          /\ page' \in ResultPages
          /\ steps' = Append(steps, "waitForSelector")
          /\ pc' = "c_extract"
          /\ UNCHANGED <<context, results, outcomes>>
       \/ /\ context = "usable"
          /\ UNCHANGED context
          /\ IF WaitTimesOut(TableTimeout)
             THEN WaitRejected
             ELSE /\ page' = NoPage
                  /\ steps' = Append(steps, "waitForSelector")
                  /\ pc' = "c_waiting"
                  /\ UNCHANGED <<results, outcomes>>
       \/ /\ context' = "lost"
          /\ WaitRejected
    /\ UNCHANGED <<req, site, browser, open, launched, exc, list, idx,
                   invocations, discovered, discoverCalls, response, xVars, uiVars>>

\* categoryResults = await extractCategoryResults(page, ...);
\* results[name] = categoryResults
CExtract ==
    /\ pc = "c_extract"
    /\ \/ /\ context = "usable"
          /\ UNCHANGED context
          /\ results' = Put(results, KeyOf(list[idx]), extractCategoryResults(page))
          /\ outcomes' = Append(outcomes, [failed |-> FALSE, error |-> "",
                                           raw |-> extractCategoryResults(page),
                                           steps |-> Append(steps, "extract")])
          /\ steps' = <<>>
          /\ page' = NoPage
          /\ pc' = "s_loop"
       \/ Fails(MsgEvaluate)
       \/ Lost
    /\ UNCHANGED <<req, site, browser, open, launched, exc, list, idx,
                   invocations, discovered, discoverCalls, response, xVars, uiVars>>

SFinally == pc = "s_finally" /\ Finally("s_exit")

\* the handler resumes after the scrape function returned or threw
AfterScrape ==
    /\ pc = "s_exit"
    /\ IF exc # ""
       THEN Respond(500, <<>>, <<>>)
       ELSE Respond(200, cleanForSerialization(transformScrapedData(results)),
                    IF req.route = "/scrape-all" THEN discovered ELSE <<>>)
    /\ UNCHANGED <<req, site, context, browser, open, launched, exc, list, idx,
                   page, results, steps, invocations, outcomes, discovered,
                   discoverCalls, xVars, uiVars>>

Next ==
    \/ Handler
    \/ DLaunch \/ DNewPage \/ DGoto \/ DEvaluate \/ DFinally \/ AfterDiscover
    \/ SLaunch \/ SNewPage \/ SLoop
    \/ CGoto \/ CSelect \/ CSubmit \/ CWait \/ CExtract
    \/ SFinally \/ AfterScrape

Spec == Init /\ [][Next]_vars

\* the positions of the handler and of the function it is running
Positions ==
    {"handler", "d_launch", "d_newPage", "d_goto", "d_evaluate", "d_finally",
     "d_exit", "s_launch", "s_newPage", "s_loop", "c_goto", "c_select",
     "c_submit", "c_wait", "c_waiting", "c_extract", "s_finally", "s_exit",
     "done"}

\* the handler moves on: it has a statement to run or an awaited call that
\* settles.  It has neither once it has answered, nor while it awaits a
\* waitForSelector without timeout on a page that never shows a table.
Progress == pc \notin {"done", "c_waiting"} /\ pc' \in Positions

\* every awaited call returns or rejects in the end (each carries a timeout
\* or is answered by the browser), so the handler always takes its next step
FairSpec == Init /\ [][Next]_vars /\ WF_pc(Progress)

(***************************************************************************)
(* Properties of a scrape run (Spec).                                      *)
(***************************************************************************)
\* the handler answered with a report
Reported ==
    /\ pc = "done"
    /\ response.status = 200
    /\ req.route \in {"/scrape-all", "/scrape"}

\* the scrape function returned its results (it did not throw)
Returned == pc = "s_exit" /\ exc = ""

\* the list holds no rawValue twice
DistinctValues ==
    \A i, j \in 1..Len(list) : ValueOf(list[i]) = ValueOf(list[j]) => i = j

\* C1: a failure while processing category i is caught and recorded as that
\* category's { error: message } in the final report, every category after
\* i is still processed, and the other categories are reported as if i had
\* not failed (each with the outcome of its own page).  Stated for the lists
\* that hold every rawValue once, which is all a refutation needs.
C1_FailureRecordedInReport ==
    (Reported /\ DistinctValues) =>
        /\ Len(outcomes) = Len(list)
        /\ \A i \in 1..Len(list) :
              /\ HasKey(response.data, KeyOf(list[i]))
              /\ Get(response.data, KeyOf(list[i]))
                    = IF outcomes[i].failed THEN ErrorEntry(outcomes[i].error)
                      ELSE TransformCategory(outcomes[i].raw)

\* what does hold: a failure never ends the loop, and the report holds, under
\* each name, the outcome of the last list element with that name
LastWithKey(i) ==
    CHOOSE j \in i..Len(list) :
        /\ KeyOf(list[j]) = KeyOf(list[i])
        /\ \A m \in (j + 1)..Len(list) : KeyOf(list[m]) # KeyOf(list[i])

FailuresIsolated ==
    Reported =>
        /\ Len(outcomes) = Len(list)
        /\ \A i \in 1..Len(list) :
              /\ HasKey(response.data, KeyOf(list[i]))
              /\ Get(response.data, KeyOf(list[i]))
                    = IF outcomes[LastWithKey(i)].failed
                      THEN ErrorEntry(outcomes[LastWithKey(i)].error)
                      ELSE TransformCategory(outcomes[LastWithKey(i)].raw)

\* C2: when a scrape run returns normally every attempted descriptor has an
\* entry under its displayName in the report, and the entry either carries a
\* non-empty error string or is populated.
C2_EveryCategoryReported ==
    /\ Returned =>
          /\ Len(outcomes) = Len(list)
          /\ \A i \in 1..Len(list) : HasKey(results, KeyOf(list[i]))
    /\ Reported =>
          \A i \in 1..Len(list) :
              /\ HasKey(response.data, KeyOf(list[i]))
              /\ LET e == Get(response.data, KeyOf(list[i]))
                 IN  \/ e.isError /\ e.error # ""
                     \/ /\ ~e.isError
                        /\ e.totalEntries = SumLens(e.subcategories, 1)

\* a report of two categories, one failed and one populated
C2_Witness ==
    /\ Reported
    /\ Len(response.data) = 2
    /\ \E c \in 1..2 : response.data[c].v.isError
    /\ \E c \in 1..2 : ~response.data[c].v.isError /\ response.data[c].v.totalEntries = 1
    /\ \E i \in 1..Len(outcomes) : outcomes[i].failed

\* C3: discoverCategories, scrapeDiscoveredCategories and scrapeCategories
\* leave no browser open once they have returned or thrown.
C3_BrowserClosedOnExit ==
    /\ open \in {0, 1}
    /\ pc \in {"d_exit", "s_launch", "s_exit", "done"} => open = 0

\* scrape-all: discovery returned, the scrape's browser was launched, page
\* creation threw, and the handler answered 500 with no browser left open
C3_Witness ==
    /\ pc = "done"
    /\ response.status = 500
    /\ launched = 2
    /\ exc = MsgNewPage
    /\ open = 0

\* C9: when the caller supplies a subset of the discovered descriptors (as
\* "Scrape Selected" does), only those are driven and the report contains
\* only those categories.
C9_OnlySuppliedCategories ==
    (Reported /\ req.route = "/scrape-all" /\ req.hasCategories) =>
        /\ list = req.categories
        /\ \A c \in 1..Len(response.data) :
              response.data[c].k \in Names(req.categories)

\* C10: a scrape over a descriptor list runs the select-and-submit step once
\* per list element, duplicates of a rawValue included: when the function
\* returns, the number of invocations is the length of the list.
C10_OneInvocationPerEntry ==
    /\ invocations <= Len(list)
    /\ Returned => invocations = Len(list)
    /\ Reported => invocations = Len(list)

\* a list whose two elements have the same rawValue, both driven
C10_Witness ==
    /\ Returned
    /\ Len(list) = 2
    /\ ValueOf(list[1]) = ValueOf(list[2])
    /\ invocations = 2
    /\ Len(outcomes) = 2

ScrapePcs ==
    {"s_launch", "s_newPage", "s_loop", "c_goto", "c_select", "c_submit",
     "c_wait", "c_extract", "s_finally", "s_exit"}
CategoryPcs == {"c_goto", "c_select", "c_submit", "c_wait", "c_extract"}

\* C11: /scrape-all calls discoverCategories exactly once; when discovery
\* yields zero categories no loop iteration starts and nothing is navigated,
\* the scrape function returns an empty mapping and the handler answers 200
\* with an empty report; the handler answers with an error only when a call
\* threw (with zero categories: the launch of the browser or the creation of
\* the page, which the scrape function does for any list).
C11_DiscoverOnceEmptyIsSuccess ==
    req.route = "/scrape-all" =>
        /\ discoverCalls = IF pc = "handler" \/ ~req.baseUrl \/ ~requireAuth(req)
                           THEN 0 ELSE 1
        /\ (pc \in ScrapePcs /\ discovered = <<>>) =>
              /\ list = <<>>
              /\ invocations = 0
              /\ steps = <<>>
              /\ results = <<>>
              /\ pc \notin CategoryPcs
              /\ exc \in {"", MsgLaunch, MsgNewPage}
        /\ (pc = "done" /\ response.status = 500) => exc # ""
        /\ (pc = "done" /\ response.status = 200 /\ discovered = <<>>) =>
              /\ response.data = <<>>
              /\ response.categories = <<>>
              /\ invocations = 0

\* a landing page whose select holds two options, neither of them a
\* category: one discovery, a second browser for the empty scrape, status 200
C11_Witness ==
    /\ req.route = "/scrape-all"
    /\ pc = "done"
    /\ response.status = 200
    /\ site.hasSelect
    /\ Len(site.options) = 2
    /\ discovered = <<>>
    /\ response.data = <<>>
    /\ discoverCalls = 1
    /\ launched = 2
    /\ invocations = 0

\* the options discovery is to keep, and the n-th of them in option order
KeptOptions(opts) ==
    {i \in 1..Len(opts) : opts[i].value # <<>> /\ Trim(opts[i].text) # <<>>}
NthOf(kept, n) == CHOOSE i \in kept : Cardinality({j \in kept : j <= i}) = n

\* the part of t after its last c (all of t when it has none)
AfterLast(t, c) ==
    LET k == CHOOSE k \in 0..Len(t) :
                 /\ k = 0 \/ t[k] = c
                 /\ \A j \in (k + 1)..Len(t) : t[j] # c
    IN  SubSeq(t, k + 1, Len(t))
LastSegment(t) == AfterLast(t, "/")

DiscoveredAsOffered(d) ==
    LET opts == site.options
        kept == KeptOptions(opts)
    IN  /\ Len(d) = Cardinality(kept)
        /\ \A n \in 1..Len(d) :
              /\ d[n].value = opts[NthOf(kept, n)].value
              /\ d[n].text = Trim(opts[NthOf(kept, n)].text)
              /\ d[n].displayName = Trim(LastSegment(Trim(opts[NthOf(kept, n)].text)))

\* C12: discoverCategories returns exactly the options with a non-empty
\* value and a non-blank text, in option order, each with the trimmed text
\* after the last "/" as displayName; a page without a select gives the
\* empty list, and the handler answers 200 with that list.
C12_DiscoverReturnsOptions ==
    /\ (pc = "d_exit" /\ exc = "") => DiscoveredAsOffered(discovered)
    /\ (pc = "d_exit" /\ exc = "" /\ ~site.hasSelect) => discovered = <<>>
    /\ (pc = "done" /\ req.route = "/discover-categories" /\ req.baseUrl
          /\ requireAuth(req)) =>
          IF exc = ""
          THEN response.status = 200 /\ DiscoveredAsOffered(response.categories)
          ELSE response.status = 500

\* options <<blank text, "B / Goats ">>: only the second is a category
C12_Witness ==
    /\ pc = "done"
    /\ req.route = "/discover-categories"
    /\ response.status = 200
    /\ Len(site.options) = 2
    /\ site.options[1] = oBlank
    /\ Len(response.categories) = 1
    /\ response.categories[1].displayName = sGoats
    /\ response.categories[1].text # sGoats

\* a page without a select, answered 200 with no categories
NoSelectAnswered ==
    /\ pc = "done"
    /\ req.route = "/discover-categories"
    /\ ~site.hasSelect
    /\ response.status = 200
    /\ response.categories = <<>>

\* C13: when the page or the browser of the run is lost after the loop has
\* started, the scrape function throws (the handler answers 500), no further
\* category is started, and no category is marked with an error for it.
C13_LostContextIsFatal ==
    (context = "lost" /\ Len(outcomes) > 0 /\ outcomes[1].error # MsgClosed) =>
        /\ pc \in {"s_finally", "s_exit", "done"}
        /\ exc # ""
        /\ \A i \in 1..Len(outcomes) : outcomes[i].error # MsgClosed
        /\ pc = "done" => response.status = 500

\* what the code does instead: the loss is caught per category, each
\* remaining category is started and marked, and the function returns
LostContextIsCaught ==
    /\ context = "lost" => exc = ""
    /\ (pc = "s_exit" /\ exc = "") => Len(outcomes) = Len(list)
    /\ \A i, j \in 1..Len(outcomes) :
          (outcomes[i].error = MsgClosed /\ i <= j) =>
              /\ outcomes[j].error = MsgClosed
              /\ HasKey(results, KeyOf(list[j]))
              /\ Get(results, KeyOf(list[LastWithKey(j)])).error = MsgClosed

\* the operations of one category, in the order the loop body issues them
SubmitSteps == {<<"click">>, <<"form.submit">>, <<"focus", "press">>}
StepsAt(position) ==
    IF position = "c_goto" THEN {<<>>}
    ELSE IF position = "c_select" THEN {<<"goto">>}
    ELSE IF position = "c_submit" THEN {<<"goto", "select">>}
    ELSE IF position = "c_wait"
    THEN {<<"goto", "select">> \o sub : sub \in SubmitSteps}
    ELSE IF position = "c_extract"
    THEN {<<"goto", "select">> \o sub \o <<"waitForSelector">> : sub \in SubmitSteps}
    ELSE {<<>>}

IsPrefix(a, b) == Len(a) <= Len(b) /\ SubSeq(b, 1, Len(a)) = a

\* C14: one page serves the whole run and the categories are handled one at
\* a time in list order: the operations of a category are goto, select,
\* submit, waitForSelector, extract in that order, the first of them always
\* the navigation to baseUrl, and while category idx is in progress exactly
\* the idx - 1 categories before it have their outcome recorded.
C14_SequentialFreshNavigation ==
    /\ steps \in StepsAt(pc)
    /\ pc \in CategoryPcs =>
          /\ context # "none"
          /\ launched = IF req.route = "/scrape" THEN 1 ELSE 2
          /\ idx \in 1..Len(list)
          /\ invocations = idx
          /\ Len(outcomes) = idx - 1
    /\ pc \in {"s_loop", "s_finally", "s_exit"} /\ exc = "" => Len(outcomes) = idx
    /\ \A i \in 1..Len(outcomes) :
          /\ outcomes[i].failed =>
                \E position \in CategoryPcs : outcomes[i].steps \in StepsAt(position)
          /\ ~outcomes[i].failed =>
                \E done \in StepsAt("c_extract") :
                    outcomes[i].steps = Append(done, "extract")

\* the second category is about to be extracted on the page that served the
\* first, after its own navigation
C14_Witness ==
    /\ pc = "c_extract"
    /\ idx = 2
    /\ steps = <<"goto", "select", "click", "waitForSelector">>
    /\ Len(outcomes) = 1
    /\ ~outcomes[1].failed
    /\ context = "usable"

\* C15: a scrape run, once started, ends: the scrape function returns or
\* throws, with no browser left open (under FairSpec).
C15_RunEnds == (pc = "s_launch") ~> (pc = "s_exit" /\ open = 0)

\* the run ended after a category that failed and a category whose page
\* never showed a table
C15_Witness ==
    /\ pc = "s_exit"
    /\ open = 0
    /\ Len(outcomes) = 2
    /\ outcomes[1].failed
    /\ ~outcomes[2].failed
    /\ outcomes[2].raw.hasError

Range(f) == {f[i] : i \in 1..Len(f)}
SubmitOps == {"click", "form.submit", "press"}
Submissions(ops) == Cardinality({n \in 1..Len(ops) : ops[n] \in SubmitOps})

\* the select of the call worked, and the call was not cut short by the
\* page going away under it
ReachedSubmission(o) ==
    /\ "select" \in Range(o.steps)
    /\ ~(o.failed /\ o.error \in {MsgEvaluate, MsgClosed})

\* C20: every call that reaches the submission step performs exactly one of
\* the submit click, the form's submit, and focus + Enter.
C20_ExactlyOneSubmission ==
    \A i \in 1..Len(outcomes) :
        ReachedSubmission(outcomes[i]) => Submissions(outcomes[i].steps) = 1

\* what does hold: never two of them
AtMostOneSubmission ==
    /\ Submissions(steps) <= 1
    /\ \A i \in 1..Len(outcomes) : Submissions(outcomes[i].steps) <= 1

\* C21: when no table appears within the bounded wait, the wait does not fail
\* the category: the step ends at the extraction with no exception in flight
\* and nothing recorded, extraction is invoked on the page and, when it
\* returns, its outcome is the category's; the loop then goes on with the
\* next category.
C21_NoTableIsNotAFailure ==
    /\ [][pc = "c_wait" =>
             /\ pc' = "c_extract"
             /\ exc' = ""
             /\ UNCHANGED <<results, outcomes, idx, list>>]_vars
    /\ [][(pc = "c_extract" /\ page = NoPage) =>
             /\ pc' = "s_loop"
             /\ exc' = ""
             /\ Len(outcomes') = Len(outcomes) + 1
             /\ LET o == outcomes'[Len(outcomes')]
                IN  IF o.failed
                    THEN o.error \in {MsgEvaluate, MsgClosed}
                    ELSE /\ o.steps[Len(o.steps)] = "extract"
                         /\ o.raw = extractCategoryResults(NoPage)
                         /\ Get(results', KeyOf(list[idx]))
                               = extractCategoryResults(NoPage)]_vars
    /\ [][(pc = "s_loop" /\ idx < Len(list)) =>
             /\ pc' = "c_goto"
             /\ idx' = idx + 1]_vars

\* the first category's page never showed a table: it got the extractor's
\* outcome for such a page, and the second category was processed after it
C21_Witness ==
    /\ pc = "s_loop"
    /\ Len(list) = 2
    /\ Len(outcomes) = 2
    /\ ~outcomes[1].failed
    /\ outcomes[1].raw = extractCategoryResults(NoPage)
    /\ Get(results, KeyOf(list[1])) = extractCategoryResults(NoPage)
    /\ KeyOf(list[1]) # KeyOf(list[2])
    /\ ~outcomes[2].failed
    /\ outcomes[2].raw # extractCategoryResults(NoPage)

\* the call came to the submission and none of its awaited calls rejected
\* for a reason of the page's own (context destroyed, page gone, no select)
SubmissionAttempted(o) ==
    /\ "select" \in Range(o.steps)
    /\ ~(o.failed /\ o.error \in {MsgEvaluate, MsgClosed, MsgSelect})

\* what the fallbacks are to do on a page without a submit control
FallbackSteps(st) ==
    IF st.form THEN <<"form.submit">> ELSE <<"focus", "press">>

\* C23: on a page with no element recognizable as a submit control, the
\* form's native submit is the action taken when there is a form, focus on
\* the select and Enter when there is none, and in both cases the category
\* goes on to the wait and the extraction instead of failing.
C23_SubmissionFallbacks ==
    \A i \in 1..Len(outcomes) :
        (SubmissionAttempted(outcomes[i]) /\ site.controls = {}) =>
            /\ IsPrefix(<<"goto", "select">> \o FallbackSteps(site)
                           \o <<"waitForSelector">>, outcomes[i].steps)
            /\ ~outcomes[i].failed

\* what the code does: neither fallback is ever taken, and a call that comes
\* to the submission on a page without a control of type submit fails on the
\* selector
FallbacksUnreachable ==
    /\ "form.submit" \notin Range(steps) /\ "press" \notin Range(steps)
    /\ \A i \in 1..Len(outcomes) :
          /\ "form.submit" \notin Range(outcomes[i].steps)
          /\ "press" \notin Range(outcomes[i].steps)
          /\ (SubmissionAttempted(outcomes[i]) /\ sSubmitButton \notin site.controls) =>
                /\ outcomes[i].failed
                /\ outcomes[i].error = MsgSelector
                /\ outcomes[i].steps = <<"goto", "select">>

\* C24: a failure of discovery (the browser cannot be launched, the page
\* cannot be created or the landing page cannot be loaded) leaves
\* discoverCategories as an exception, past its finally; the handler then
\* answers 500 with no report, and in /scrape-all the scrape is never started:
\* no second browser, no iteration, nothing recorded.  Discovery that did not
\* throw returned the categories of the page.
C24_DiscoveryFailurePropagates ==
    /\ [][(pc \in {"d_launch", "d_newPage", "d_goto"} /\ pc' = "d_finally") =>
             exc' # ""]_vars
    /\ [][pc = "d_finally" => (pc' = "d_exit" /\ exc' = exc)]_vars
    /\ [][(pc = "d_exit" /\ exc # "") =>
             /\ pc' = "done"
             /\ response' = [status |-> 500, data |-> <<>>, categories |-> <<>>]
             /\ launched' = launched /\ launched <= 1
             /\ invocations' = 0
             /\ context' = "none"
             /\ results' = <<>>]_vars
    /\ []((pc = "d_exit" /\ exc = "") => discovered = discoverEvaluate(site))
    /\ []((req.route = "/scrape-all" /\ req.baseUrl /\ pc \in ScrapePcs) =>
             /\ discoverCalls = 1
             /\ discovered = discoverEvaluate(site))

\* /scrape-all on a landing page that offers two categories and cannot be
\* loaded: one browser launched and closed, no category started, status 500
C24_Witness ==
    /\ req.route = "/scrape-all"
    /\ pc = "done"
    /\ response.status = 500
    /\ exc = MsgGoto
    /\ Len(discoverEvaluate(site)) = 2
    /\ launched = 1
    /\ open = 0
    /\ invocations = 0
    /\ response.data = <<>>

\* what the loop assigned to results for an outcome
RecordedFor(o) ==
    IF o.failed
    THEN [hasError |-> TRUE, error |-> o.error, hasResults |-> FALSE, results |-> <<>>]
    ELSE o.raw

EntriesUnder(obj, key) == Cardinality({c \in 1..Len(obj) : obj[c].k = key})

\* C25: when two elements of the driven list share a displayName both are
\* driven, and the results (and the report made of them) hold one entry under
\* that name, with the outcome of the later element; the outcome of the
\* earlier one, entries or error, is overwritten.
C25_LaterOutcomeOverwrites ==
    \A i, j \in 1..Len(list) :
        (i < j /\ KeyOf(list[i]) = KeyOf(list[j])) =>
            /\ Returned =>
                  /\ invocations = Len(list)
                  /\ Len(outcomes) = Len(list)
                  /\ outcomes[i].steps # <<>> \/ outcomes[i].error \in {MsgGoto, MsgClosed}
                  /\ EntriesUnder(results, KeyOf(list[i])) = 1
                  /\ Get(results, KeyOf(list[i])) = RecordedFor(outcomes[LastWithKey(j)])
            /\ Reported =>
                  /\ EntriesUnder(response.data, KeyOf(list[i])) = 1
                  /\ Get(response.data, KeyOf(list[i]))
                        = TransformCategory(RecordedFor(outcomes[LastWithKey(j)]))

\* 'A / Goats' failed at its select and 'B / Goats' gave one entry: the
\* report holds the one entry under 'Goats' and no error
C25_Witness ==
    /\ Reported
    /\ req.route = "/scrape-all"
    /\ Len(list) = 2
    /\ list[1].displayName = list[2].displayName
    /\ list[1].value # list[2].value
    /\ outcomes[1].failed
    /\ ~outcomes[2].failed
    /\ Len(response.data) = 1
    /\ ~response.data[1].v.isError
    /\ response.data[1].v.totalEntries = 1

\* the header is exactly 'Bearer ' followed by the configured password
Authorized ==
    /\ req.hasAuthorization
    /\ Len(req.authorization) = Len(sBearer) + Len(AUTH_PASSWORD)
    /\ \A n \in 1..Len(req.authorization) :
          req.authorization[n] = IF n <= Len(sBearer) THEN sBearer[n]
                                 ELSE AUTH_PASSWORD[n - Len(sBearer)]

\* the body has what the route requires
BodyComplete ==
    /\ req.baseUrl
    /\ req.route = "/scrape" => (req.hasCategories /\ Len(req.categories) > 0)

RECURSIVE FlattenGroups(_, _)
FlattenGroups(groups, g) ==
    IF g > Len(groups) THEN <<>>
    ELSE [e \in 1..Len(groups[g].v) |->
            [name |-> groups[g].v[e].name, ribbon |-> groups[g].v[e].ribbon,
             awards |-> groups[g].v[e].awards, placing |-> groups[g].v[e].placing,
             club |-> groups[g].v[e].club, subcategory |-> groups[g].k]]
         \o FlattenGroups(groups, g + 1)

\* a report entry back as a raw outcome
RawOf(entry) ==
    IF entry.isError
    THEN [hasError |-> TRUE, error |-> entry.error, hasResults |-> FALSE,
          results |-> <<>>]
    ELSE [hasError |-> FALSE, error |-> "", hasResults |-> TRUE,
          results |-> FlattenGroups(entry.subcategories, 1)]

transformInverse(report) ==
    [c \in 1..Len(report) |-> [k |-> report[c].k, v |-> RawOf(report[c].v)]]

\* C16: a report flattened back into raw per-category results (entries
\* tagged with the key of their list, an error category as an error outcome)
\* and transformed again is the same report.
C16_TransformRoundTrip ==
    (xpc = "transformed") =>
        transformScrapedData(transformInverse(xreport)) = xreport

\* a report with two subcategory lists, one of them holding two different
\* entries
C16_Witness ==
    /\ xpc = "transformed"
    /\ Len(xreport) = 1
    /\ ~xreport[1].v.isError
    /\ Len(xreport[1].v.subcategories) = 2
    /\ \E g \in 1..2 :
          /\ Len(xreport[1].v.subcategories[g].v) = 2
          /\ xreport[1].v.subcategories[g].v[1] # xreport[1].v.subcategories[g].v[2]

\* an error report makes the round trip too
ErrorRoundTrip ==
    /\ xpc = "transformed"
    /\ xreport[1].v.isError
    /\ transformInverse(xreport)[1].v.error = "No table found"

(***************************************************************************)
(* The effect of a subcategory header row (SpecExtract).                   *)
(***************************************************************************)
\* the extractor's running state after the first k rows of the table
XStateAfter(k, cols) ==
    ProcessRows(SubSeq(XRows, 1, k), 1, cols, [cur |-> tGeneral, results |-> <<>>])

\* the last span of row k has a colon at an index greater than 0
XColonAfterStart(k) ==
    /\ Len(XRows[k].spans) > 0
    /\ LET t == Trim(XRows[k].spans[Len(XRows[k].spans)])
       IN  \E n \in 2..Len(t) : t[n] = ":"

\* C26: a row with a th[colspan] cell produces no entry, and it changes the
\* running subcategory only when the text of its last span has a colon at an
\* index greater than 0; in every other case the running subcategory after
\* the row is the one before it.
C26_HeaderRowFrame ==
    (xpc = "extracted" /\ xpage.hasTable) =>
        LET cols == XCols
        IN  /\ xraw.results = XStateAfter(Len(XRows), cols).results
            /\ \A k \in 1..Len(XRows) :
                  XRows[k].th =>
                      LET before == XStateAfter(k - 1, cols)
                          after == XStateAfter(k, cols)
                      IN  /\ after.results = before.results
                          /\ XColonAfterStart(k) \/ after.cur = before.cur

\* 'Class: A', Ann, ': X', Ann: the second header has its colon at index 0,
\* and both entries are tagged 'A'
C26_Witness ==
    /\ xpc = "extracted"
    /\ Len(XRows) = 4
    /\ XRows[1] = ThRow(<<sClassA>>)
    /\ XRows[3] = ThRow(<<sColonX>>)
    /\ Len(xraw.results) = 2
    /\ xraw.results[1].subcategory = <<"A">>
    /\ xraw.results[2].subcategory = <<"A">>

(***************************************************************************)
(* Tables with a header row, rows of different lengths and subcategory     *)
(* headers with several colons (specification SpecColumns).                *)
(***************************************************************************)
sExhibitor == <<"E","x","h","i","b","i","t","o","r">>
sNameHeader == <<"N","a","m","e">>
sClubHeader == <<"C","l","u","b">>
sRibbonHeader == <<"R","i","b","b","o","n">>
sAwardsHeader == <<"A","w","a","r","d","s">>
sPlacingHeader == <<"P","l","a","c","i","n","g">>
sRibbonAward == <<"R","i","b","b","o","n"," ","/"," ","A","w","a","r","d">>
sAnnExhibitor == sAnn \o <<" ">> \o sExhibitor
sBlue == <<"B","l","u","e">>
sFirst == <<"1","s","t">>
sChamp == <<"C","h","a","m","p">>
sDeptLot == <<"D","e","p","t",":"," ","4","-","H",":"," ","L","o","t"," ","2">>

\* the first row of the table: none (the first body row is the first row),
\* or a row of column headers
HeaderRows ==
    { <<>>,
      <<DataRow(<< <<"#">>, tExhibitorName, sClubHeader, sRibbonHeader >>)>>,
      <<DataRow(<< sPlacingHeader, tExhibitorName, sRibbonAward >>)>>,
      <<DataRow(<< sExhibitor, sNameHeader >>)>>,
      <<DataRow(<< tExhibitorName, sAwardsHeader >>)>> }

BodyRows ==
    { DataRow(<< <<"1">>, sAnn, <<"x">>, <<"y">>, sBlue, sFirst, sChamp >>),
      DataRow(<< <<"2">>, sBob >>),
      DataRow(<< sAnn >>),
      DataRow(<< <<"3">>, sAnnExhibitor >>),
      ThRow(<<sClassA>>),
      ThRow(<<sDeptLot>>) }

ColumnPages ==
    {[hasTable |-> TRUE, rows |-> h \o b] :
        h \in HeaderRows, b \in UNION {[1..n -> BodyRows] : n \in 1..MaxBody}}

\* a rendered page with such a table is handed to the extractor
CInit ==
    /\ NoApp
    /\ xpage \in ColumnPages
    /\ xpc = "page"
    /\ xraw = NoOutcome
    /\ xreport = <<>>
    /\ req = [route |-> "none"]
    /\ site = [hasSelect |-> FALSE, options |-> <<>>, controls |-> {}, form |-> FALSE]
    /\ pc = "idle"
    /\ browser = FALSE
    /\ open = 0
    /\ launched = 0
    /\ exc = ""
    /\ list = <<>>
    /\ idx = 0
    /\ page = NoPage
    /\ results = <<>>
    /\ steps = <<>>
    /\ invocations = 0
    /\ outcomes = <<>>
    /\ discovered = <<>>
    /\ discoverCalls = 0
    /\ context = "none"
    /\ response = [status |-> 0, data |-> <<>>, categories |-> <<>>]

SpecColumns == CInit /\ [][XNext]_vars

\* the last header row before row k whose last span holds a colon (0: none)
XColonHeaderBefore(k) ==
    LET before == {j \in 1..(k - 1) :
                      /\ XRows[j].th
                      /\ Len(XRows[j].spans) > 0
                      /\ Includes(XRows[j].spans[Len(XRows[j].spans)], <<":">>)}
    IN  IF before = {} THEN 0 ELSE CHOOSE j \in before : \A i \in before : i <= j

\* C17: an entry that follows a subcategory header whose text holds one or
\* more colons is tagged with the text after the last colon, trimmed.
C17_NameAfterLastColon ==
    (xpc # "page" /\ xpage.hasTable) =>
        LET accepted == XAcceptedRows
            nth(n) == CHOOSE k \in accepted :
                          Cardinality({j \in accepted : j <= k}) = n
        IN  \A n \in 1..Len(xraw.results) :
                LET j == XColonHeaderBefore(nth(n))
                IN  j > 0 =>
                      xraw.results[n].subcategory
                          = Trim(AfterLast(XRows[j].spans[Len(XRows[j].spans)], ":"))

\* what holds: the text after the first colon, when that colon is not the
\* first character (C4_PositionalSubcategory states it for every table)
NameAfterFirstColon ==
    (xpc # "page" /\ xpage.hasTable) =>
        LET accepted == XAcceptedRows
            nth(n) == CHOOSE k \in accepted :
                          Cardinality({j \in accepted : j <= k}) = n
        IN  \A n \in 1..Len(xraw.results) :
                xraw.results[n].subcategory = XSubcategoryAt(nth(n))

\* the rows that are data rows: no th[colspan] cell and at least one cell
XDataRows == {k \in 1..Len(XRows) : ~XRows[k].th /\ Len(XRows[k].cells) > 0}

\* the names the guard is to reject: empty, "exhibitor" or "Exhibitor Name"
\* in any letter case
IsHeaderName(name) ==
    \/ name = <<>>
    \/ ToLowerCase(name) = tExhibitor
    \/ ToLowerCase(name) = ToLowerCase(tExhibitorName)

\* C18: a data row is skipped exactly when its resolved name is empty or is
\* "exhibitor" or "Exhibitor Name" in any letter case; every other data row
\* gives exactly one entry, in row order.
C18_SkippedExactlyHeaderNames ==
    (xpc # "page" /\ xpage.hasTable) =>
        LET cols == XCols
            kept == {k \in XDataRows : ~IsHeaderName(XNameIn(cols, k))}
            nth(n) == CHOOSE k \in kept : Cardinality({j \in kept : j <= k}) = n
        IN  /\ Len(xraw.results) = Cardinality(kept)
            /\ \A n \in 1..Len(xraw.results) :
                  xraw.results[n].name = XNameIn(cols, nth(n))

\* what holds: a row is skipped exactly when its name is empty or contains
\* "exhibitor" in any letter case
SkippedWhenContainsExhibitor ==
    (xpc # "page" /\ xpage.hasTable) =>
        LET cols == XCols
            kept == {k \in XDataRows :
                        /\ XNameIn(cols, k) # <<>>
                        /\ ~Includes(ToLowerCase(XNameIn(cols, k)), tExhibitor)}
            nth(n) == CHOOSE k \in kept : Cardinality({j \in kept : j <= k}) = n
        IN  /\ Len(xraw.results) = Cardinality(kept)
            /\ \A n \in 1..Len(xraw.results) :
                  xraw.results[n].name = XNameIn(cols, nth(n))

\* the roles, the substrings a header must contain for each, the field of
\* NoColumns that holds its column, and its fallback position (-1: none)
Roles == {"name", "ribbon", "awards", "club", "placing"}
RoleWords(role) ==
    IF role = "name" THEN {tExhibitor, tName}
    ELSE IF role = "ribbon" THEN {tRibbon}
    ELSE IF role = "awards" THEN {tAward}
    ELSE IF role = "club" THEN {tClub}
    ELSE {tPlacing}
RoleColumn(cols, role) ==
    IF role = "name" THEN cols.nameCol
    ELSE IF role = "ribbon" THEN cols.ribbonCol
    ELSE IF role = "awards" THEN cols.awardsCol
    ELSE IF role = "club" THEN cols.clubCol
    ELSE cols.placingCol
RolePosition(role) ==
    IF role = "name" THEN 1
    ELSE IF role = "ribbon" THEN 4
    ELSE IF role = "awards" THEN 6
    ELSE IF role = "placing" THEN 5
    ELSE -1
RoleField(entry, role) ==
    IF role = "name" THEN entry.name
    ELSE IF role = "ribbon" THEN entry.ribbon
    ELSE IF role = "awards" THEN entry.awards
    ELSE IF role = "club" THEN entry.club
    ELSE entry.placing

HeaderHas(header, role) ==
    \A w \in RoleWords(role) : Includes(ToLowerCase(header), w)

\* C19: a role resolves to a column whose header contains its substring
\* whenever such a header exists; a role without such a header is read from
\* position 1 (name), 4 (ribbon), 6 (awards), 5 (placing), empty when the
\* row is too short, and club has no positional fallback.
C19_RolesResolveToTheirHeaders ==
    (xpc # "page" /\ xpage.hasTable) =>
        LET headers == HeaderTexts(XRows)
            cols == XCols
            accepted == XAcceptedRows
            nth(n) == CHOOSE k \in accepted :
                          Cardinality({j \in accepted : j <= k}) = n
        IN  \A role \in Roles :
                IF \E i \in 1..Len(headers) : HeaderHas(headers[i], role)
                THEN /\ RoleColumn(cols, role) \in 0..(Len(headers) - 1)
                     /\ HeaderHas(headers[RoleColumn(cols, role) + 1], role)
                ELSE /\ RoleColumn(cols, role) = -1
                     /\ role # "club" =>
                          \A n \in 1..Len(xraw.results) :
                              LET cells == CellTexts(XRows[nth(n)])
                              IN  RoleField(xraw.results[n], role)
                                    = IF Len(cells) > RolePosition(role)
                                      THEN cells[RolePosition(role) + 1]
                                      ELSE <<>>

\* what holds: a header is given to the first role it matches in the order
\* name, ribbon, awards, club, placing, and a role takes the last header
\* given to it
RoleGiven(header) ==
    IF HeaderHas(header, "name") THEN "name"
    ELSE IF HeaderHas(header, "ribbon") THEN "ribbon"
    ELSE IF HeaderHas(header, "awards") THEN "awards"
    ELSE IF HeaderHas(header, "club") THEN "club"
    ELSE IF HeaderHas(header, "placing") THEN "placing"
    ELSE "none"

RolesByPriority ==
    (xpc # "page" /\ xpage.hasTable) =>
        LET headers == HeaderTexts(XRows)
            cols == XCols
        IN  \A role \in Roles :
                LET given == {i \in 1..Len(headers) : RoleGiven(headers[i]) = role}
                IN  RoleColumn(cols, role)
                      = IF given = {} THEN -1
                        ELSE (CHOOSE i \in given : \A j \in given : j <= i) - 1

(***************************************************************************)
(* The App component of src/frontend/src/App.js (specification SpecUI):    *)
(* its state, the browser's localStorage, and its requests in flight.  The *)
(* backend answers a request as the handlers above do: 401 unless          *)
(* requireAuth lets it through, 400 without a baseUrl, else 500 or the     *)
(* categories and a report of the fair at that URL.                        *)
(***************************************************************************)
\* the landing page behind a URL: fair A offers Goats and Sheep, fair B Sheep
SiteAt(u) ==
    Site(TRUE, IF u = uFairA THEN <<oGoatsA, oSheep>> ELSE <<oSheep>>,
         [controls |-> {sSubmitButton, sButton}, form |-> TRUE])

CategoriesAt(u) == discoverEvaluate(SiteAt(u))
DisplayNames(cats) == [i \in 1..Len(cats) |-> cats[i].displayName]

\* what one category of a run can end with: the catch's { error }, or the
\* extraction of a page with one entry
RawOutcomes ==
    { [hasError |-> TRUE, error |-> MsgGoto, hasResults |-> FALSE, results |-> <<>>],
      extractCategoryResults(
          [hasTable |-> TRUE,
           rows |-> <<ThRow(<<sClassA>>), DataRow(<< <<"1">>, sAnn >>)>>]) }

RECURSIVE RawFrom(_, _, _, _)
RawFrom(cats, f, i, acc) ==
    IF i > Len(cats) THEN acc
    ELSE RawFrom(cats, f, i + 1, Put(acc, cats[i].displayName, f[i]))

\* the reports /scrape-all can answer with for the fair at u
ReportsAt(u) ==
    LET cats == CategoriesAt(u)
    IN  { cleanForSerialization(transformScrapedData(RawFrom(cats, f, 1, <<>>))) :
            f \in [1..Len(cats) -> RawOutcomes] }

\* a request of the App as the backend sees it: the Bearer header made by
\* getAuthHeaders and the baseUrl of the body (the categories that
\* handleScrapeSelected adds to the body are read by no handler)
AppRequest(route, call) ==
    Request(route, Header(sBearer \o call.token), call.baseUrl # uEmpty, FALSE, <<>>)

\* the answers the backend can give to a call of the App
Answers(route, call) ==
    IF ~requireAuth(AppRequest(route, call))
    THEN {[status |-> 401, data |-> <<>>, categories |-> <<>>]}
    ELSE IF ~AppRequest(route, call).baseUrl
    THEN {[status |-> 400, data |-> <<>>, categories |-> <<>>]}
    ELSE {[status |-> 500, data |-> <<>>, categories |-> <<>>]}
         \cup (IF route = "/discover-categories"
               THEN {[status |-> 200, data |-> <<>>,
                      categories |-> CategoriesAt(call.baseUrl)]}
               ELSE {[status |-> 200, data |-> d,
                      categories |-> DisplayNames(CategoriesAt(call.baseUrl))] :
                        d \in ReportsAt(call.baseUrl)})

(***************************************************************************)
(* formatResultsForNewspaper.                                              *)
(***************************************************************************)
sUnknown == <<"U","n","k","n","o","w","n">>
sComma == <<",", " ">>
sDash == <<" ", "-", " ">>
sSemicolon == <<" ", ";", " ">>
sStars == <<"*", "*">>
sNewline == <<"\n">>

\* entries.map(entry => ...): one entry as text
FormatEntry(entry) ==
    LET named == IF entry.name # <<>> THEN entry.name ELSE sUnknown
        withClub == IF Trim(entry.club) # <<>>
                    THEN named \o sComma \o entry.club ELSE named
        withPlacing == IF Trim(entry.placing) # <<>>
                       THEN withClub \o sComma \o entry.placing ELSE withClub
        withAwards == IF Trim(entry.awards) # <<>>
                      THEN withPlacing \o sComma \o entry.awards ELSE withPlacing
    IN  IF Trim(entry.ribbon) # <<>>
        THEN withAwards \o sDash \o entry.ribbon ELSE withAwards

\* .filter(entry => entry && entry !== 'Unknown')
KeptEntry(text) == text # <<>> /\ text # sUnknown

\* formattedEntries.join(' ; ')
RECURSIVE Join(_, _)
Join(texts, separator) ==
    IF texts = <<>> THEN <<>>
    ELSE IF Len(texts) = 1 THEN texts[1]
    ELSE texts[1] \o separator \o Join(Tail(texts), separator)

\* the line of one subcategory ('' when no entry is left)
FormatSubcategory(subcategoryName, entries) ==
    LET formattedEntries ==
            SelectSeq([e \in 1..Len(entries) |-> FormatEntry(entries[e])], KeptEntry)
    IN  IF Len(formattedEntries) = 0 THEN <<>>
        ELSE IF subcategoryName # tGeneral
        THEN subcategoryName \o <<":", " ">> \o Join(formattedEntries, sSemicolon)
                \o sNewline
        ELSE Join(formattedEntries, sSemicolon) \o sNewline

\* the callback of categoryKeys.forEach: the text one category adds
FormatCategory(categoryName, categoryData) ==
    IF categoryData.isError THEN <<>>
    ELSE IF Len(categoryData.subcategories) = 0 THEN <<>>
    ELSE sStars \o categoryName \o sStars \o sNewline
            \o Concat([g \in 1..Len(categoryData.subcategories) |->
                          FormatSubcategory(categoryData.subcategories[g].k,
                                            categoryData.subcategories[g].v)])
            \o sNewline

formatResultsForNewspaper(data) ==
    Concat([c \in 1..Len(data) |-> FormatCategory(data[c].k, data[c].v)])

\* what is shown when nothing was formatted
sNothingFormattedAll ==
    <<"N","o"," ","r","e","s","u","l","t","s"," ","w","e","r","e"," ","f",
      "o","r","m","a","t","t","e","d","."," ","T","h","e"," ","f","a","i",
      "r"," ","m","a","y"," ","n","o","t"," ","h","a","v","e"," ","r","e",
      "s","u","l","t","s"," ","p","o","s","t","e","d"," ","y","e","t",".">>

sNothingFormattedSelected ==
    <<"N","o"," ","r","e","s","u","l","t","s"," ","w","e","r","e"," ","f",
      "o","r","m","a","t","t","e","d","."," ","T","h","e"," ","s","e","l",
      "e","c","t","e","d"," ","c","a","t","e","g","o","r","i","e","s"," ",
      "m","a","y"," ","n","o","t"," ","h","a","v","e"," ","r","e","s","u",
      "l","t","s"," ","p","o","s","t","e","d"," ","y","e","t",".">>

(***************************************************************************)
(* The component's state machine.                                          *)
(***************************************************************************)
\* a stored token that is not the configured password (it was changed)
OldPassword == <<"o","l","d">>

\* the component is mounted in a browser that holds no token, the password,
\* or a password of earlier days; the first effect has run
UInit ==
    /\ \E saved \in {<<>>, AUTH_PASSWORD, OldPassword} :
          /\ localStorage = [authToken |-> saved, scraped |-> [u \in Urls |-> <<>>]]
          /\ authToken = saved
          /\ isAuthenticated = (saved # <<>>)
    /\ baseUrl = uEmpty
    /\ discoveredCategories = <<>>
    /\ selectedCategories = <<>>
    /\ scrapedCategories = <<>>
    /\ uiResults = <<>>
    /\ rendered = NotRendered
    /\ inflight = [c \in Calls |-> NoCall]
    /\ req = [route |-> "none"]
    /\ site = [hasSelect |-> FALSE, options |-> <<>>, controls |-> {}, form |-> FALSE]
    /\ pc = "idle"
    /\ browser = FALSE
    /\ open = 0
    /\ launched = 0
    /\ exc = ""
    /\ list = <<>>
    /\ idx = 0
    /\ page = NoPage
    /\ results = <<>>
    /\ steps = <<>>
    /\ invocations = 0
    /\ outcomes = <<>>
    /\ discovered = <<>>
    /\ discoverCalls = 0
    /\ context = "none"
    /\ response = NoResponse
    /\ xpage = NoPage
    /\ xpc = "idle"
    /\ xraw = NoOutcome
    /\ xreport = <<>>

\* the two effects, run after a render with baseUrl b and scrapedCategories
\* sc on storage st.  The first (deps [baseUrl]) loads the history saved for
\* b; the second (deps [scrapedCategories, baseUrl]) saves a non-empty sc
\* under b, and runs again when the first one set another list.
AfterRender(b, sc, st) ==
    LET saved == IF b # baseUrl THEN st.scraped[b] ELSE <<>>
        loaded == IF saved # <<>> THEN saved ELSE sc
        first == IF b # uEmpty /\ sc # <<>>
                 THEN [st EXCEPT !.scraped[b] = sc] ELSE st
        second == IF b # uEmpty /\ loaded # <<>>
                  THEN [first EXCEPT !.scraped[b] = loaded] ELSE first
    IN  [scraped |-> loaded, storage |-> second]

\* a handler's state updates are rendered and the effects run; the first
\* effect also restores the session from a stored token when baseUrl changed
Render(auth, token, b, disc, sel, sc, res, made, st) ==
    LET restored == b # baseUrl /\ st.authToken # <<>>
        effects == AfterRender(b, sc, st)
    IN  /\ isAuthenticated' = (auth \/ restored)
        /\ authToken' = IF restored THEN st.authToken ELSE token
        /\ baseUrl' = b
        /\ discoveredCategories' = disc
        /\ selectedCategories' = sel
        /\ scrapedCategories' = effects.scraped
        /\ uiResults' = res
        /\ rendered' = made
        /\ localStorage' = effects.storage

Settled(call) == inflight' = [inflight EXCEPT ![call] = NoCall]

\* handleLogout
handleLogout ==
    Render(FALSE, <<>>, uEmpty, <<>>, <<>>, <<>>, <<>>, NotRendered,
           [localStorage EXCEPT !.authToken = <<>>])

\* a continuation that only sets the status line
StatusOnly ==
    UNCHANGED <<isAuthenticated, authToken, baseUrl, discoveredCategories,
                selectedCategories, scrapedCategories, uiResults, rendered,
                localStorage>>

\* handleLogin up to its await: the password typed is posted to /auth/verify
LoginSubmit ==
    /\ ~isAuthenticated
    /\ ~inflight["login"].sent
    /\ InFlight < MaxInFlight
    /\ \E typed \in {AUTH_PASSWORD, OldPassword} :
          inflight' = [inflight EXCEPT !["login"] = Call(typed, uEmpty, <<>>, <<>>)]
    /\ StatusOnly
    /\ UNCHANGED <<reqVars, xVars>>

\* handleLogin after its await: success for the configured password only
LoginAnswered ==
    /\ inflight["login"].sent
    /\ LET typed == inflight["login"].token
       IN  IF typed = AUTH_PASSWORD
           THEN Render(TRUE, typed, baseUrl, discoveredCategories,
                       selectedCategories, scrapedCategories, uiResults, rendered,
                       [localStorage EXCEPT !.authToken = typed])
           ELSE StatusOnly
    /\ Settled("login")
    /\ UNCHANGED <<reqVars, xVars>>

\* the Logout button
Logout ==
    /\ isAuthenticated
    /\ handleLogout
    /\ UNCHANGED <<inflight, reqVars, xVars>>

\* onChange of the URL field
ChangeUrl ==
    /\ isAuthenticated
    /\ \E u \in Urls \ {baseUrl} :
          Render(isAuthenticated, authToken, u, <<>>, <<>>, <<>>, uiResults,
                 rendered, localStorage)
    /\ UNCHANGED <<inflight, reqVars, xVars>>

\* handleDiscoverCategories up to its await
Discover ==
    /\ isAuthenticated
    /\ baseUrl # uEmpty
    /\ ~inflight["discover"].sent
    /\ InFlight < MaxInFlight
    /\ inflight' = [inflight EXCEPT
                      !["discover"] = Call(authToken, baseUrl, <<>>, <<>>)]
    /\ Render(isAuthenticated, authToken, baseUrl, <<>>, selectedCategories,
              scrapedCategories, uiResults, rendered, localStorage)
    /\ UNCHANGED <<reqVars, xVars>>

\* handleDiscoverCategories after its await; baseUrl is the one of the
\* render that issued the call
DiscoverAnswered ==
    /\ inflight["discover"].sent
    /\ LET call == inflight["discover"]
       IN  \E answer \in Answers("/discover-categories", call) :
              IF answer.status = 200
              THEN Render(isAuthenticated, authToken, baseUrl, answer.categories,
                          selectedCategories, localStorage.scraped[call.baseUrl],
                          uiResults, rendered, localStorage)
              ELSE IF answer.status = 401
              THEN handleLogout
              ELSE StatusOnly
    /\ Settled("discover")
    /\ UNCHANGED <<reqVars, xVars>>

\* handleScrapeAll up to its await
ScrapeAll ==
    /\ isAuthenticated
    /\ baseUrl # uEmpty
    /\ ~inflight["scrapeAll"].sent
    /\ InFlight < MaxInFlight
    /\ inflight' = [inflight EXCEPT
                      !["scrapeAll"] = Call(authToken, baseUrl, <<>>, <<>>)]
    /\ Render(isAuthenticated, authToken, baseUrl, discoveredCategories,
              selectedCategories, scrapedCategories, <<>>, NotRendered, localStorage)
    /\ UNCHANGED <<reqVars, xVars>>

\* handleScrapeAll after its await
ScrapeAllAnswered ==
    /\ inflight["scrapeAll"].sent
    /\ LET call == inflight["scrapeAll"]
       IN  \E answer \in Answers("/scrape-all", call) :
              IF answer.status = 200
              THEN LET formattedResults == formatResultsForNewspaper(answer.data)
                   IN  IF Trim(formattedResults) # <<>>
                       THEN Render(isAuthenticated, authToken, baseUrl,
                                   discoveredCategories, selectedCategories,
                                   answer.categories, formattedResults,
                                   [made |-> TRUE, data |-> answer.data],
                                   localStorage)
                       ELSE Render(isAuthenticated, authToken, baseUrl,
                                   discoveredCategories, selectedCategories,
                                   scrapedCategories, sNothingFormattedAll,
                                   [made |-> TRUE, data |-> answer.data],
                                   localStorage)
              ELSE IF answer.status = 401
              THEN handleLogout
              ELSE StatusOnly
    /\ Settled("scrapeAll")
    /\ UNCHANGED <<reqVars, xVars>>

\* handleCategoryToggle, from a checkbox of the list of discovered categories
handleCategoryToggle ==
    /\ isAuthenticated
    /\ ~inflight["scrapeSelected"].sent
    /\ \E n \in 1..Len(discoveredCategories) :
          LET categoryName == discoveredCategories[n].displayName
          IN  Render(isAuthenticated, authToken, baseUrl, discoveredCategories,
                     IF categoryName \in Range(selectedCategories)
                     THEN SelectSeq(selectedCategories, LAMBDA name : name # categoryName)
                     ELSE Append(selectedCategories, categoryName),
                     scrapedCategories, uiResults, rendered, localStorage)
    /\ UNCHANGED <<inflight, reqVars, xVars>>

\* clearScrapedHistory, shown with the list when there is a history
clearScrapedHistory ==
    /\ isAuthenticated
    /\ discoveredCategories # <<>>
    /\ scrapedCategories # <<>>
    /\ Render(isAuthenticated, authToken, baseUrl, discoveredCategories,
              selectedCategories, <<>>, uiResults, rendered,
              [localStorage EXCEPT !.scraped[baseUrl] = <<>>])
    /\ UNCHANGED <<inflight, reqVars, xVars>>

\* handleScrapeSelected up to its await
ScrapeSelected ==
    /\ isAuthenticated
    /\ discoveredCategories # <<>>
    /\ selectedCategories # <<>>
    /\ ~inflight["scrapeSelected"].sent
    /\ InFlight < MaxInFlight
    /\ inflight' = [inflight EXCEPT
                      !["scrapeSelected"] = Call(authToken, baseUrl,
                                                 selectedCategories,
                                                 scrapedCategories)]
    /\ Render(isAuthenticated, authToken, baseUrl, discoveredCategories,
              selectedCategories, scrapedCategories, <<>>, NotRendered, localStorage)
    /\ UNCHANGED <<reqVars, xVars>>

\* [...new Set([...scrapedCategories, ...selectedCategories])]
RECURSIVE Distinct(_, _)
Distinct(names, acc) ==
    IF names = <<>> THEN acc
    ELSE Distinct(Tail(names),
                  IF Head(names) \in Range(acc) THEN acc ELSE Append(acc, Head(names)))

\* handleScrapeSelected after its await; selectedCategories and
\* scrapedCategories are those of the render that issued the call
ScrapeSelectedAnswered ==
    /\ inflight["scrapeSelected"].sent
    /\ LET call == inflight["scrapeSelected"]
       IN  \E answer \in Answers("/scrape-all", call) :
              IF answer.status = 200
              THEN LET formattedResults == formatResultsForNewspaper(answer.data)
                   IN  IF Trim(formattedResults) # <<>>
                       THEN Render(isAuthenticated, authToken, baseUrl,
                                   discoveredCategories, <<>>,
                                   Distinct(call.scraped \o call.selected, <<>>),
                                   formattedResults,
                                   [made |-> TRUE, data |-> answer.data],
                                   localStorage)
                       ELSE Render(isAuthenticated, authToken, baseUrl,
                                   discoveredCategories, selectedCategories,
                                   scrapedCategories, sNothingFormattedSelected,
                                   [made |-> TRUE, data |-> answer.data],
                                   localStorage)
              ELSE IF answer.status = 401
              THEN handleLogout
              ELSE StatusOnly
    /\ Settled("scrapeSelected")
    /\ UNCHANGED <<reqVars, xVars>>

UNext ==
    \/ LoginSubmit \/ LoginAnswered \/ Logout \/ ChangeUrl
    \/ Discover \/ DiscoverAnswered
    \/ ScrapeAll \/ ScrapeAllAnswered
    \/ handleCategoryToggle \/ clearScrapedHistory
    \/ ScrapeSelected \/ ScrapeSelectedAnswered

SpecUI == UInit /\ [][UNext]_vars

(***************************************************************************)
(* Properties of the App (SpecUI).                                         *)
(***************************************************************************)
\* C22: what the user sees of a report shows every category of the report,
\* the failed ones included (each at least by its name; the claim adds: with
\* its error string).
C22_EveryCategoryShown ==
    rendered.made =>
        \A c \in 1..Len(rendered.data) : Includes(uiResults, rendered.data[c].k)

\* what the code shows: the categories that have an entry, under their name
\* between asterisks, and no failed category
PopulatedCategoriesShown ==
    rendered.made =>
        \A c \in 1..Len(rendered.data) :
            LET heading == sStars \o rendered.data[c].k \o sStars
            IN  Includes(uiResults, heading)
                    <=> (~rendered.data[c].v.isError
                            /\ Len(rendered.data[c].v.subcategories) > 0)

\* C28: the history stored under the key of URL u holds only display names
\* of categories of the fair at u, whatever the order of user actions and
\* answers.
C28_HistoryBelongsToUrl ==
    \A u \in Urls :
        Range(localStorage.scraped[u]) \subseteq Range(DisplayNames(CategoriesAt(u)))

\* what holds: the history on screen is the one stored for the URL in the
\* field, whichever fair it came from
HistoryStoredUnderCurrentUrl ==
    (baseUrl # uEmpty /\ scrapedCategories # <<>>) =>
        localStorage.scraped[baseUrl] = scrapedCategories

\* C29: whenever the user is logged out the token is gone from the state and
\* from storage, and results, discovered, selected and scraped categories
\* are empty.
C29_LoggedOutIsCleared ==
    ~isAuthenticated =>
        /\ authToken = <<>>
        /\ localStorage.authToken = <<>>
        /\ uiResults = <<>>
        /\ discoveredCategories = <<>>
        /\ selectedCategories = <<>>
        /\ scrapedCategories = <<>>

\* what holds: the token part, and the rest for as long as no answer to an
\* earlier call has come in
TokenClearedWhenLoggedOut ==
    /\ ~isAuthenticated => (authToken = <<>> /\ localStorage.authToken = <<>>)
    /\ isAuthenticated => (authToken # <<>> /\ localStorage.authToken = authToken)

====
